---- MODULE Spec2Model ----
(***************************************************************************)
(* gitcheck: the remote-refresh / auto-pull engine of gitcheck.py and the  *)
(* token handling of https_utils.py.                                       *)
(*                                                                         *)
(* Threads: 0 is the main thread (gitcheck()), 1..MaxJobs are the worker   *)
(* threads of the ThreadPoolExecutor.  Repositories are the indices        *)
(* 1..nrepo of the sorted list returned by searchRepositories().           *)
(*                                                                         *)
(* A git command is an external input: its result is drawn with \E at the  *)
(* step that runs it.  An exception in flight is kept in exc[t]:           *)
(*   "TimeoutExpired"  subprocess.TimeoutExpired                           *)
(*   "NetTimeout"      Exception("Network timeout - remote server not      *)
(*                     responding")            (gitcheck.py:319)           *)
(*   "Auth"            an Exception whose text isAuthenticationError       *)
(*                     accepts                                             *)
(*   "Other"           an Exception whose text it rejects                  *)
(* The verbose and debug output options are taken as off.                  *)
(***************************************************************************)
EXTENDS Integers, Sequences, FiniteSets, TLC

\* ------------------------------------------------------------------ bounds
MaxRepos == 2
MaxJobs == 2
MaxRemotes == 2
MaxDirty == 2
MaxCommits == 3

Tokens == {"T1", "T2"}
NoToken == ""
OpKinds == {"update", "pull"}
PromptKinds == OpKinds \cup {"initial"}

Threads == 0..MaxJobs
Workers == 1..MaxJobs
Main == 0
Free == -1

\* Variant: leaving the with-block keeps the lock with thread t.
ReleasedKept(t) == t

\* Leaving "with console_lock:" releases the lock, on return and on exception.
Released(t) == Free

VARIABLES
    argopts,        \* the options read by the engine
    nrepo,          \* len(repo): the repositories are 1..nrepo
    GITLAB_TOKEN,   \* os.environ['GITLAB_TOKEN']
    retry_attempted,\* [opKind -> BOOLEAN]: <function>._token_retry_attempted is set
    console_lock,   \* holder of console_lock, or Free
    urlTok,         \* [repo -> token carried by the repository's remote URLs]
    mainpc,         \* position of gitcheck() in the main thread
    nsubmitted,     \* futures submitted so far (parallel mode)
    queue,          \* the executor's work queue
    future,         \* [repo -> "none" | "pending" | "running" | "finished" | "exception"]
    result,         \* [repo -> the result dict of processRepository]
    outcomes,       \* results in the order as_completed yielded them
    seqi,           \* index of the sequential loop
    seqlog,         \* [repo -> what the sequential loop printed for it]
    pc,             \* [thread -> position in the pipeline]
    cur,            \* [thread -> repository it is processing, 0 if none]
    exc,            \* [thread -> exception in flight]
    ret,            \* [thread -> value autoPullRepository returned]
    new_token,      \* [thread -> the local new_token of promptForNewToken]
    hist,           \* [repo -> what its pipeline has run so far]
    prompting,      \* [thread -> an interactive prompt is open in it]
    nprompts,       \* [opKind -> re-authentication prompts issued]
    ngrants,        \* [opKind -> times the gate test let a failure through]
    tokenAtStart,   \* the token held when the run began
    cs_in,          \* input of canSafelyPull (function specification)
    cs_out,         \* its result
    interrupted,    \* KeyboardInterrupt was raised in the main thread
    gx_in,          \* gitExec: its timeout argument and what the command does
    gx_pc,          \* gitExec: position in the function
    popen,          \* gitExec: state of the subprocess p
    gx_exc,         \* gitExec: what it returned or raised
    remote_url,     \* URL conversion: the URL of each remote in the git config
    eh_in,          \* ensureHttpsRemotes: the arguments of the last call
    eh_out,         \* ensureHttpsRemotes: what the last call returned and printed
    sr_in,          \* searchRepositories: the directory tree and the options
    sr_out,         \* searchRepositories: the list it returned
    cs_ran          \* the git commands canSafelyPull ran, in order

vars == <<argopts, nrepo, GITLAB_TOKEN, retry_attempted, console_lock, urlTok,
          mainpc, nsubmitted, queue, future, result, outcomes, seqi, seqlog,
          pc, cur, exc, ret, new_token, hist, prompting, nprompts, ngrants, tokenAtStart,
          cs_in, cs_out, interrupted, gx_in, gx_pc, popen, gx_exc,
          remote_url, eh_in, eh_out, sr_in, sr_out, cs_ran>>

Repos == 1..MaxRepos
repo == 1..nrepo

\* ------------------------------------------------- canSafelyPull (pure part)
\* A remote as git sees it: whether <remote>/<branch> is listed by branch -r
\* and the lengths of the two one-sided log ranges.
RemoteStates == [has : BOOLEAN, ahead : 0..MaxCommits, behind : 0..MaxCommits]

RemoteLists == UNION {[1..n -> RemoteStates] : n \in 0..MaxRemotes}

hasRemoteBranch(rm) == rm.has

getLocalToPush(rm) == IF ~hasRemoteBranch(rm) THEN 0 ELSE rm.ahead

getRemoteToPull(rm) == IF ~hasRemoteBranch(rm) THEN 0 ELSE rm.behind

\* Variant: a remote with nothing to pull is not skipped.
RECURSIVE ScanRemotesNoSkip(_, _)
ScanRemotesNoSkip(remotes, i) ==
    IF i > Len(remotes)
    THEN [ok |-> FALSE, reason |-> "No remote branches to pull from"]
    ELSE IF ~hasRemoteBranch(remotes[i]) THEN ScanRemotesNoSkip(remotes, i + 1)
    ELSE IF getLocalToPush(remotes[i]) > 0
         THEN [ok |-> FALSE, reason |-> "Branch has local commits not pushed"]
         ELSE [ok |-> TRUE, reason |-> "Can fast-forward"]

RECURSIVE ScanRemotes(_, _)
ScanRemotes(remotes, i) ==
    IF i > Len(remotes)
    THEN [ok |-> FALSE, reason |-> "No remote branches to pull from"]
    ELSE IF ~hasRemoteBranch(remotes[i]) THEN ScanRemotes(remotes, i + 1)
    ELSE IF getRemoteToPull(remotes[i]) = 0 THEN ScanRemotes(remotes, i + 1)
    ELSE IF getLocalToPush(remotes[i]) > 0
         THEN [ok |-> FALSE, reason |-> "Branch has local commits not pushed"]
         ELSE [ok |-> TRUE, reason |-> "Can fast-forward"]

\* Variant: a repository without remotes passes the check.
canSafelyPullNoRemotesOk(changes, remotes) ==
    IF changes > 0 THEN [ok |-> FALSE, reason |-> "Has uncommitted changes"]
    ELSE IF Len(remotes) = 0 THEN [ok |-> TRUE, reason |-> "Can fast-forward"]
    ELSE ScanRemotes(remotes, 1)

\* Variant: the local changes are not looked at.
canSafelyPullIgnoringChanges(changes, remotes) ==
    IF Len(remotes) = 0 THEN [ok |-> FALSE, reason |-> "No remote configured"]
    ELSE ScanRemotes(remotes, 1)

canSafelyPull(changes, remotes) ==
    IF changes > 0 THEN [ok |-> FALSE, reason |-> "Has uncommitted changes"]
    ELSE IF Len(remotes) = 0 THEN [ok |-> FALSE, reason |-> "No remote configured"]
    ELSE ScanRemotes(remotes, 1)

\* The git commands the same functions run: gitExec(rep, 'branch -r'), and
\* the log of one side when the branch is listed.  i is the remote.
Ran_(cmd, i) == [cmd |-> cmd, remote |-> i]

hasRemoteBranchRuns(rm, i) == <<Ran_("branch -r", i)>>

\* Variant: the log is run whether or not the branch is listed.
SideRunsUnchecked(rm, i, side) ==
    hasRemoteBranchRuns(rm, i) \o <<Ran_(side, i)>>

\* getLocalToPush / getRemoteToPull: if not hasRemoteBranch(...): return []
SideRuns(rm, i, side) ==
    hasRemoteBranchRuns(rm, i)
    \o (IF ~hasRemoteBranch(rm) THEN <<>> ELSE <<Ran_(side, i)>>)

RECURSIVE ScanRuns(_, _)
ScanRuns(remotes, i) ==
    IF i > Len(remotes) THEN <<>>
    ELSE IF ~hasRemoteBranch(remotes[i])
         THEN hasRemoteBranchRuns(remotes[i], i) \o ScanRuns(remotes, i + 1)
    ELSE IF getRemoteToPull(remotes[i]) = 0
         THEN hasRemoteBranchRuns(remotes[i], i)
              \o SideRuns(remotes[i], i, "log branch..remote/branch")
              \o ScanRuns(remotes, i + 1)
    ELSE hasRemoteBranchRuns(remotes[i], i)
         \o SideRuns(remotes[i], i, "log branch..remote/branch")
         \o SideRuns(remotes[i], i, "log remote/branch..branch")

canSafelyPullRuns(changes, remotes) ==
    <<Ran_("status -suno", 0)>>
    \o (IF changes > 0 THEN <<>>
        ELSE <<Ran_("remote", 0)>> \o ScanRuns(remotes, 1))

\* --------------------------------------------------------------- the state
ArgOpts == [checkremote : BOOLEAN, use_https : BOOLEAN, autopull : BOOLEAN,
            parallel : BOOLEAN, jobs : 1..MaxJobs]

NewHist == [fetch |-> 0, pull |-> 0, branch |-> 0, ensure |-> 0, force |-> 0,
            lastfetch |-> "none", lastpull |-> "none", safety |-> "none",
            granted |-> {}, prompted |-> {}, supplied |-> {},
            timedout |-> FALSE]

NotApplied == [ok |-> FALSE, reason |-> "not applied"]

\* An optional argument is a sequence of at most one value.
None == <<>>

\* gitExec has not been called.
NoCommand == [timeout |-> None, cmd |-> "none", lasts |-> "short",
              returncode |-> 0, errors |-> <<>>]

NoException == [type |-> "none", msg |-> <<>>]

\* ensureHttpsRemotes has not been called on a list of remote URLs.
NoEnsure == [origin |-> <<>>, before |-> <<>>, gitlab_token |-> NoToken,
             force_update |-> FALSE, verbose |-> FALSE, fails |-> 0,
             calls |-> 0]

NoEnsured == [converted |-> <<>>, results |-> <<>>, printed |-> <<>>,
              any |-> FALSE]

\* searchRepositories has not been called on a directory tree.
NoSearch == [git |-> {}, searchDir |-> <<>>, depth |-> None]

NotSearched == [done |-> FALSE, repo |-> <<>>]

UrlsOff ==
    /\ remote_url = <<>>
    /\ eh_in = NoEnsure
    /\ eh_out = NoEnsured
    /\ sr_in = NoSearch
    /\ sr_out = NotSearched

NotCalled ==
    /\ gx_in = NoCommand
    /\ gx_pc = "off"
    /\ popen = "none"
    /\ gx_exc = NoException
    /\ UrlsOff

\* Variant: the result starts as a success.
NewResultOptimistic == [success |-> TRUE, updated |-> FALSE, pulled |-> FALSE,
                        error |-> "None"]

NewResult == [success |-> FALSE, updated |-> FALSE, pulled |-> FALSE,
              error |-> "None"]

Init ==
    /\ argopts \in ArgOpts
    /\ nrepo \in 0..MaxRepos
    /\ GITLAB_TOKEN \in {NoToken, "T1"}
    /\ tokenAtStart = GITLAB_TOKEN
    /\ retry_attempted = [o \in OpKinds |-> FALSE]
    /\ console_lock = Free
    /\ \E u \in {NoToken, "T1"} :
          urlTok = [r \in Repos |-> IF r <= nrepo THEN u ELSE NoToken]
    /\ mainpc = "start"
    /\ nsubmitted = 0
    /\ queue = <<>>
    /\ future = [r \in Repos |-> "none"]
    /\ result = [r \in Repos |-> NewResult]
    /\ outcomes = <<>>
    /\ seqi = 0
    /\ seqlog = [r \in Repos |-> "none"]
    /\ pc = [t \in Threads |-> "idle"]
    /\ cur = [t \in Threads |-> 0]
    /\ exc = [t \in Threads |-> "none"]
    /\ ret = [t \in Threads |-> FALSE]
    /\ new_token = [t \in Threads |-> NoToken]
    /\ hist = [r \in Repos |-> NewHist]
    /\ prompting = [t \in Threads |-> FALSE]
    /\ nprompts = [o \in PromptKinds |-> 0]
    /\ ngrants = [o \in OpKinds |-> 0]
    /\ cs_in = [changes |-> 0, remotes |-> <<>>]
    /\ cs_out = NotApplied
    /\ cs_ran = <<>>
    /\ interrupted = FALSE
    /\ NotCalled

pureVars == <<cs_in, cs_out, cs_ran>>
execVars == <<gx_in, gx_pc, popen, gx_exc>>
urlVars == <<remote_url, eh_in, eh_out>>
searchVars == <<sr_in, sr_out>>
\* What no step of a run of the engine changes.
configVars == <<argopts, nrepo, tokenAtStart, interrupted, execVars, urlVars,
                searchVars>>
poolVars == <<nsubmitted, queue, future, result, outcomes>>
seqVars == <<seqi, seqlog>>
authVars == <<GITLAB_TOKEN, retry_attempted, nprompts, ngrants, new_token,
              prompting>>

\* Record of a repository's pipeline: commands run, the verdict of the safety
\* check, the opKinds whose gate let it through and for which a replacement
\* token was supplied, whether its last refresh exceeded the timeout.
Ran(r, cmd) == [hist EXCEPT ![r][cmd] = @ + 1]

RanFetch(r, res) ==
    [hist EXCEPT ![r].fetch = @ + 1,
                 ![r].lastfetch = IF res = "ok" THEN "ok" ELSE "fail",
                 ![r].timedout = (res = "TimeoutExpired")]

RanPull(r, res) ==
    [hist EXCEPT ![r].pull = @ + 1,
                 ![r].lastpull = IF res = "ok" THEN "ok" ELSE "fail"]

Noted(r, field, op) == [hist EXCEPT ![r][field] = @ \cup {op}]

Goto(t, p) == [pc EXCEPT ![t] = p]

\* Variant: HTTPS enforcement is taken as requested whatever the option says.
use_httpsAlways == TRUE

\* argopts.get('use_https', False)
use_https == argopts.use_https

\* ------------------------------------------------------------- main thread
\* Variant: the missing token goes unnoticed.
TokenMissingNever == FALSE

\* gitlab_token = os.environ.get('GITLAB_TOKEN', '').strip(); gitlab_token == ''
TokenMissing == GITLAB_TOKEN = NoToken

\* gitcheck(): the checkremote block, up to the choice of the mode.
Start ==
    /\ mainpc = "start"
    /\ mainpc' = IF ~argopts.checkremote THEN "done"
                 ELSE IF use_https /\ TokenMissing
                      THEN "init_prompt"
                      ELSE "dispatch"
    /\ UNCHANGED <<configVars, poolVars, seqVars, authVars, pureVars,
                   console_lock, urlTok, pc, cur, exc, ret, hist>>

\* https_utils.promptForToken: the prompt is open while console_lock is held.
InitPromptOpen ==
    /\ mainpc = "init_prompt"
    /\ console_lock = Free
    /\ console_lock' = Main
    /\ prompting' = [prompting EXCEPT ![Main] = TRUE]
    /\ nprompts' = [nprompts EXCEPT !["initial"] = @ + 1]
    /\ mainpc' = "init_ask"
    /\ UNCHANGED <<configVars, poolVars, seqVars, pureVars, GITLAB_TOKEN,
                   retry_attempted, ngrants, new_token, urlTok, pc,
                   cur, exc, ret, hist>>

InitPromptAnswer ==
    /\ mainpc = "init_ask"
    /\ \E ans \in {NoToken} \cup Tokens :
        /\ new_token' = [new_token EXCEPT ![Main] = ans]
        /\ GITLAB_TOKEN' = IF ans # NoToken THEN ans ELSE GITLAB_TOKEN
        /\ mainpc' = IF ans # NoToken THEN "init_save" ELSE "dispatch"
    /\ console_lock' = Released(Main)
    /\ prompting' = [prompting EXCEPT ![Main] = FALSE]
    /\ UNCHANGED <<configVars, poolVars, seqVars, pureVars, retry_attempted,
                   nprompts, ngrants, urlTok, pc, cur, exc, ret, hist>>

\* saveTokenPermanently: prints under console_lock, sets the environment.
InitSave ==
    /\ mainpc = "init_save"
    /\ console_lock = Free
    /\ GITLAB_TOKEN' = new_token[Main]
    /\ new_token' = [new_token EXCEPT ![Main] = NoToken]
    /\ mainpc' = "dispatch"
    /\ UNCHANGED <<configVars, poolVars, seqVars, pureVars, retry_attempted,
                   nprompts, ngrants, prompting, console_lock,
                   urlTok, pc, cur, exc, ret, hist>>

Dispatch ==
    /\ mainpc = "dispatch"
    /\ mainpc' = IF argopts.parallel /\ nrepo > 1 THEN "submit" ELSE "seq"
    /\ UNCHANGED <<configVars, poolVars, seqVars, authVars, pureVars,
                   console_lock, urlTok, pc, cur, exc, ret, hist>>

\* Variant: every submission is bound to the first repository.
SubmittedFirstOnly(n) == [i \in 1..n |-> 1]

\* future_to_repo = {executor.submit(processRepository, r): r for r in repo}
Submitted(n) == [i \in 1..n |-> i]

Submit ==
    /\ mainpc = "submit"
    /\ nsubmitted' = nrepo
    /\ queue' = Submitted(nrepo)
    /\ future' = [r \in Repos |-> IF r <= nrepo THEN "pending" ELSE "none"]
    /\ mainpc' = "collect"
    /\ UNCHANGED <<configVars, seqVars, authVars, pureVars, result, outcomes,
                   console_lock, urlTok, pc, cur, exc, ret, hist>>

\* for future in as_completed(...): future.result(), printed under the lock.
Collect ==
    /\ mainpc = "collect"
    /\ console_lock = Free
    /\ \E r \in repo :
        \/ /\ future[r] = "finished"
           /\ future' = [future EXCEPT ![r] = "yielded"]
           /\ outcomes' = Append(outcomes, [path |-> r, res |-> result[r]])
        \/ /\ future[r] = "exception"
           /\ future' = [future EXCEPT ![r] = "yielded_exception"]
           /\ outcomes' = outcomes
    /\ UNCHANGED <<configVars, seqVars, authVars, pureVars, nsubmitted, queue,
                   result, mainpc, console_lock, urlTok, pc, cur, exc, ret,
                   hist>>

CollectDone ==
    /\ mainpc = "collect"
    /\ \A r \in repo : future[r] \in {"yielded", "yielded_exception"}
    /\ mainpc' = "done"
    /\ UNCHANGED <<configVars, poolVars, seqVars, authVars, pureVars,
                   console_lock, urlTok, pc, cur, exc, ret, hist>>

\* Sequential mode: for r in repo: updateRemote(r) ...
\* Variant: the list is walked from its end.
NextInOrderReversed(done) == nrepo - done

\* for r in repo: the repository taken after `done` of them, repo being the
\* sorted list searchRepositories returned.
NextInOrder(done) == done + 1

SeqNext ==
    /\ mainpc = "seq"
    /\ pc[Main] = "idle"
    /\ IF seqi < nrepo
       THEN /\ seqi' = seqi + 1
            /\ cur' = [cur EXCEPT ![Main] = NextInOrder(seqi)]
            /\ pc' = Goto(Main, "ur_https")
            /\ mainpc' = mainpc
       ELSE /\ mainpc' = "done"
            /\ UNCHANGED <<seqi, cur, pc>>
    /\ UNCHANGED <<configVars, poolVars, authVars, pureVars, seqlog,
                   console_lock, urlTok, exc, ret, hist>>

\* Variant: the pull phase is entered whatever the options say.
autopullAlways == TRUE

\* if argopts.get('autopull', False):
autopull == argopts.autopull

SeqUpdated ==
    /\ mainpc = "seq"
    /\ pc[Main] = "ur_done"
    /\ IF autopull
       THEN /\ pc' = Goto(Main, "pr_branch")
            /\ UNCHANGED <<cur, seqlog>>
       ELSE /\ pc' = Goto(Main, "idle")
            /\ cur' = [cur EXCEPT ![Main] = 0]
            /\ seqlog' = [seqlog EXCEPT ![cur[Main]] = "updated"]
    /\ UNCHANGED <<configVars, poolVars, authVars, pureVars, seqi, mainpc,
                   console_lock, urlTok, exc, ret, hist>>

SeqAfterPull ==
    /\ mainpc = "seq"
    /\ pc[Main] \in {"ap_done", "no_branch"}
    /\ pc' = Goto(Main, "idle")
    /\ cur' = [cur EXCEPT ![Main] = 0]
    /\ seqlog' = [seqlog EXCEPT ![cur[Main]] = "updated"]
    /\ ret' = [ret EXCEPT ![Main] = FALSE]
    /\ UNCHANGED <<configVars, poolVars, authVars, pureVars, seqi, mainpc,
                   console_lock, urlTok, exc, hist>>

\* Variant: the failure of one repository ends the loop.
AfterSeqFailureStop == "done"

\* except Exception as e: ... continue
AfterSeqFailure == "seq"

\* except Exception as e: print the warning, continue with the next one.
SeqCatch ==
    /\ mainpc = "seq"
    /\ pc[Main] = "raised"
    /\ pc' = Goto(Main, "idle")
    /\ cur' = [cur EXCEPT ![Main] = 0]
    /\ exc' = [exc EXCEPT ![Main] = "none"]
    /\ seqlog' = [seqlog EXCEPT ![cur[Main]] = "failed"]
    /\ mainpc' = AfterSeqFailure
    /\ UNCHANGED <<configVars, poolVars, authVars, pureVars, seqi,
                   console_lock, urlTok, ret, hist>>

\* ---------------------------------------------------------- worker wrapper
\* Variant: the pool is as large as the machine allows.
max_workersUnlimited == MaxJobs

\* max_workers = argopts.get('jobs', 4); ThreadPoolExecutor(max_workers=...)
max_workers == argopts.jobs

\* A pool thread takes the next work item and enters processRepository.
Take(w) ==
    /\ w <= max_workers
    /\ pc[w] = "idle"
    /\ \A v \in 1..(w - 1) : pc[v] # "idle"   \* pool threads are alike
    /\ queue # <<>>
    /\ cur' = [cur EXCEPT ![w] = Head(queue)]
    /\ queue' = Tail(queue)
    /\ future' = [future EXCEPT ![Head(queue)] = "running"]
    /\ result' = [result EXCEPT ![Head(queue)] = NewResult]
    /\ pc' = Goto(w, "ur_https")
    /\ UNCHANGED <<configVars, seqVars, authVars, pureVars, nsubmitted,
                   outcomes, mainpc, console_lock, urlTok, exc, ret, hist>>

\* processRepository after updateRemote returned.
PR_Updated(w) ==
    /\ pc[w] = "ur_done"
    /\ IF autopull
       THEN /\ result' = [result EXCEPT ![cur[w]].updated = TRUE]
            /\ pc' = Goto(w, "pr_branch")
            /\ UNCHANGED <<cur, future>>
       ELSE /\ result' = [result EXCEPT ![cur[w]].updated = TRUE,
                                        ![cur[w]].success = TRUE]
            /\ future' = [future EXCEPT ![cur[w]] = "finished"]
            /\ pc' = Goto(w, "idle")
            /\ cur' = [cur EXCEPT ![w] = 0]
    /\ UNCHANGED <<configVars, seqVars, authVars, pureVars, nsubmitted, queue,
                   outcomes, mainpc, console_lock, urlTok, exc, ret, hist>>

\* processRepository after the branch loop: pulled, success, return result.
PR_AfterPull(w) ==
    /\ pc[w] \in {"ap_done", "no_branch"}
    /\ result' = [result EXCEPT
                    ![cur[w]].pulled = (pc[w] = "ap_done" /\ ret[w]),
                    ![cur[w]].success = TRUE]
    /\ future' = [future EXCEPT ![cur[w]] = "finished"]
    /\ pc' = Goto(w, "idle")
    /\ cur' = [cur EXCEPT ![w] = 0]
    /\ ret' = [ret EXCEPT ![w] = FALSE]
    /\ UNCHANGED <<configVars, seqVars, authVars, pureVars, nsubmitted, queue,
                   outcomes, mainpc, console_lock, urlTok, exc, hist>>

\* Variant: the failure is stored as it came, unclassified.
ErrorTextRaw(e) == e

\* Variant: processRepository without its "except Exception" clause.
CaughtOnlyTimeout(e) == e = "TimeoutExpired"

\* The except clauses of processRepository: which exceptions they catch, and
\* the text they store.
Caught(e) == e \in {"TimeoutExpired", "NetTimeout", "Auth", "Other"}

ErrorText(e) ==
    IF e = "TimeoutExpired" THEN "Timeout (30s) - remote not responding"
    ELSE IF e = "NetTimeout"
         THEN "Network timeout - remote server not responding"
         ELSE e

PR_Catch(w) ==
    /\ pc[w] = "raised"
    /\ IF Caught(exc[w])
       THEN /\ result' = [result EXCEPT ![cur[w]].error = ErrorText(exc[w])]
            /\ future' = [future EXCEPT ![cur[w]] = "finished"]
       ELSE /\ future' = [future EXCEPT ![cur[w]] = "exception"]
            /\ UNCHANGED result
    /\ exc' = [exc EXCEPT ![w] = "none"]
    /\ pc' = Goto(w, "idle")
    /\ cur' = [cur EXCEPT ![w] = 0]
    /\ UNCHANGED <<configVars, seqVars, authVars, pureVars, nsubmitted, queue,
                   outcomes, mainpc, console_lock, urlTok, ret, hist>>

\* ------------------------------------------------------------ updateRemote
\* ensureHttpsRemotes: what it can do to the repository's remote URL, and
\* whether it reports a conversion.  Failures of git are swallowed.
ensureHttpsRemotes(r, force_update) ==
    {[conv |-> FALSE, tok |-> urlTok[r]]}
    \cup (IF GITLAB_TOKEN # NoToken /\ (force_update \/ urlTok[r] # GITLAB_TOKEN)
          THEN {[conv |-> TRUE, tok |-> GITLAB_TOKEN]} ELSE {})
    \cup (IF GITLAB_TOKEN = NoToken /\ urlTok[r] = NoToken
          THEN {[conv |-> TRUE, tok |-> NoToken]} ELSE {})

\* Variant: the prompt and the prints do not take console_lock.
CanAcquireUnlocked == TRUE

\* with console_lock: the lock can be taken when nobody holds it.
CanAcquire == console_lock = Free

UR_Https(t) ==
    /\ pc[t] = "ur_https"
    /\ IF use_https
       THEN \E o \in ensureHttpsRemotes(cur[t], FALSE) :
               /\ urlTok' = [urlTok EXCEPT ![cur[t]] = o.tok]
               /\ pc' = Goto(t, IF o.conv THEN "ur_print" ELSE "ur_fetch")
               /\ hist' = Ran(cur[t], "ensure")
       ELSE /\ pc' = Goto(t, "ur_fetch")
            /\ UNCHANGED <<urlTok, hist>>
    /\ UNCHANGED <<configVars, poolVars, seqVars, authVars, pureVars, mainpc,
                   console_lock, cur, exc, ret>>

\* with console_lock: console.print("Converted n remote(s) to HTTPS")
UR_Print(t) ==
    /\ pc[t] = "ur_print"
    /\ CanAcquire
    /\ pc' = Goto(t, "ur_fetch")
    /\ UNCHANGED <<configVars, poolVars, seqVars, authVars, pureVars, mainpc,
                   console_lock, urlTok, cur, exc, ret, hist>>

FetchResults == {"ok", "TimeoutExpired", "Auth", "Other"}

PullResults == {"ok", "Auth", "Other"}

\* gitExec(rep, "remote update", timeout=30) and the except clauses up to the
\* test of the retry gate.
UR_Fetch(t) ==
    /\ pc[t] = "ur_fetch"
    /\ \E res \in FetchResults :
        /\ hist' = RanFetch(cur[t], res)
        /\ \/ /\ res = "ok"
              /\ pc' = Goto(t, "ur_done")
              /\ exc' = exc
           \/ /\ res = "TimeoutExpired"
              /\ pc' = Goto(t, "raised")
              /\ exc' = [exc EXCEPT ![t] = "NetTimeout"]
           \/ /\ res = "Auth"
              /\ pc' = Goto(t, IF use_https THEN "ur_gate" ELSE "raised")
              /\ exc' = [exc EXCEPT ![t] = "Auth"]
           \/ /\ res = "Other"
              /\ pc' = Goto(t, "raised")
              /\ exc' = [exc EXCEPT ![t] = "Other"]
    /\ UNCHANGED <<configVars, poolVars, seqVars, authVars, pureVars, mainpc,
                   console_lock, urlTok, cur, ret>>

\* ----------------------------------- the re-authentication sequence, per opKind
\* Positions of the sequence in updateRemote and in autoPullRepository, and
\* where each goes when no retry is made.
ReauthPc ==
    [update |-> [gate |-> "ur_gate", flip |-> "ur_flip", prompt |-> "ur_prompt",
                 ask |-> "ur_ask", save |-> "ur_save", force |-> "ur_force",
                 retry |-> "ur_retry", refused |-> "raised"],
     pull   |-> [gate |-> "ap_gate", flip |-> "ap_flip", prompt |-> "ap_prompt",
                 ask |-> "ap_ask", save |-> "ap_save", force |-> "ap_force",
                 retry |-> "ap_retry", refused |-> "ap_warn"]]

\* Variant: both functions test and set one shared attribute.
GateAttrShared(op) == "update"

\* The function attribute that guards the retry of op:
\* updateRemote._token_retry_attempted, autoPullRepository._token_retry_attempted.
GateAttr(op) == op

\* if not hasattr(f, '_token_retry_attempted'):
GateTest(t, op) ==
    /\ pc[t] = ReauthPc[op].gate
    /\ IF ~retry_attempted[GateAttr(op)]
       THEN /\ pc' = Goto(t, ReauthPc[op].flip)
            /\ ngrants' = [ngrants EXCEPT ![op] = @ + 1]
            /\ hist' = Noted(cur[t], "granted", op)
       ELSE /\ pc' = Goto(t, ReauthPc[op].refused)
            /\ UNCHANGED <<ngrants, hist>>
    /\ UNCHANGED <<configVars, poolVars, seqVars, pureVars, GITLAB_TOKEN,
                   retry_attempted, nprompts, new_token, prompting, mainpc,
                   console_lock, urlTok, cur, exc, ret>>

\* f._token_retry_attempted = True
GateFlip(t, op) ==
    /\ pc[t] = ReauthPc[op].flip
    /\ retry_attempted' = [retry_attempted EXCEPT ![GateAttr(op)] = TRUE]
    /\ pc' = Goto(t, ReauthPc[op].prompt)
    /\ UNCHANGED <<configVars, poolVars, seqVars, pureVars, GITLAB_TOKEN,
                   nprompts, ngrants, new_token, prompting, mainpc,
                   console_lock, urlTok, cur, exc, ret, hist>>

\* https_utils.promptForNewToken: with console_lock: ... Prompt.ask(...)
PromptOpen(t, op) ==
    /\ pc[t] = ReauthPc[op].prompt
    /\ CanAcquire
    /\ console_lock' = t
    /\ prompting' = [prompting EXCEPT ![t] = TRUE]
    /\ nprompts' = [nprompts EXCEPT ![op] = @ + 1]
    /\ hist' = Noted(cur[t], "prompted", op)
    /\ pc' = Goto(t, ReauthPc[op].ask)
    /\ UNCHANGED <<configVars, poolVars, seqVars, pureVars, GITLAB_TOKEN,
                   retry_attempted, ngrants, new_token, mainpc, urlTok, cur,
                   exc, ret>>

\* The operator answers; the lock is released; a non-empty token is put in
\* os.environ by gitcheck.promptForNewToken.
PromptAnswer(t, op) ==
    /\ pc[t] = ReauthPc[op].ask
    /\ console_lock' = Released(t)
    /\ prompting' = [prompting EXCEPT ![t] = FALSE]
    /\ \E ans \in {NoToken} \cup Tokens :
        /\ new_token' = [new_token EXCEPT ![t] = ans]
        /\ IF ans # NoToken
           THEN /\ GITLAB_TOKEN' = ans
                /\ hist' = Noted(cur[t], "supplied", op)
                /\ pc' = Goto(t, ReauthPc[op].save)
           ELSE /\ pc' = Goto(t, ReauthPc[op].refused)
                /\ UNCHANGED <<GITLAB_TOKEN, hist>>
    /\ UNCHANGED <<configVars, poolVars, seqVars, pureVars, retry_attempted,
                   nprompts, ngrants, mainpc, urlTok, cur, exc, ret>>

\* saveTokenPermanently(new_token, ...): prints under the lock and sets
\* os.environ['GITLAB_TOKEN'] = token once more.
SaveToken(t, op) ==
    /\ pc[t] = ReauthPc[op].save
    /\ CanAcquire
    /\ GITLAB_TOKEN' = new_token[t]
    /\ new_token' = [new_token EXCEPT ![t] = NoToken]
    /\ pc' = Goto(t, ReauthPc[op].force)
    /\ UNCHANGED <<configVars, poolVars, seqVars, pureVars, retry_attempted,
                   nprompts, ngrants, prompting, mainpc,
                   console_lock, urlTok, cur, exc, ret, hist>>

\* ensureHttpsRemotes(rep, force_update=True)
ForceHttps(t, op) ==
    /\ pc[t] = ReauthPc[op].force
    /\ \E o \in ensureHttpsRemotes(cur[t], TRUE) :
        urlTok' = [urlTok EXCEPT ![cur[t]] = o.tok]
    /\ hist' = Ran(cur[t], "force")
    /\ pc' = Goto(t, ReauthPc[op].retry)
    /\ UNCHANGED <<configVars, poolVars, seqVars, authVars, pureVars, mainpc,
                   console_lock, cur, exc, ret>>

\* Variant: a failure of the retry is swallowed.
AfterRetrySwallowed(res) == "ur_done"

\* result = gitExec(rep, "remote update", timeout=30); return -- inside the
\* except clause, so what the retry raises leaves updateRemote as it is.
AfterRetry(res) == IF res = "ok" THEN "ur_done" ELSE "raised"

UR_Retry(t) ==
    /\ pc[t] = "ur_retry"
    /\ \E res \in FetchResults :
        /\ hist' = RanFetch(cur[t], res)
        /\ pc' = Goto(t, AfterRetry(res))
        /\ exc' = [exc EXCEPT ![t] = IF res = "ok" THEN "none" ELSE res]
    /\ UNCHANGED <<configVars, poolVars, seqVars, authVars, pureVars, mainpc,
                   console_lock, urlTok, cur, ret>>

\* ------------------------------------------- branch detection and auto-pull
\* getDefaultBranch(repo_path) and the loop "for branch in branch_set".
PR_Branch(t) ==
    /\ pc[t] = "pr_branch"
    /\ hist' = Ran(cur[t], "branch")
    /\ \E res \in {"branch", "nobranch", "Other"} :
        \/ /\ res = "branch"
           /\ pc' = Goto(t, "ap_check")
           /\ exc' = exc
        \/ /\ res = "nobranch"
           /\ pc' = Goto(t, "no_branch")
           /\ exc' = exc
        \/ /\ res = "Other"
           /\ pc' = Goto(t, "raised")
           /\ exc' = [exc EXCEPT ![t] = "Other"]
    /\ UNCHANGED <<configVars, poolVars, seqVars, authVars, pureVars, mainpc,
                   console_lock, urlTok, cur, ret>>

\* Every answer canSafelyPull can give when its commands succeed.
CheckResults ==
    {canSafelyPull(changes, remotes) :
        changes \in 0..MaxDirty, remotes \in RemoteLists}

Verdict(r, ok) ==
    [hist EXCEPT ![r].safety = IF ok THEN "safe" ELSE "unsafe"]

\* Variant: the verdict of the safety check is ignored.
ProceedsAlways(c) == TRUE

\* can_pull, reason = canSafelyPull(rep, branch); if not can_pull: return False
Proceeds(c) == c.ok

\* autoPullRepository up to the decision.  The status, remote and branch -r
\* commands of canSafelyPull raise to the caller; a failure of a log command
\* is turned into (False, "Error checking ...").
AP_Check(t) ==
    /\ pc[t] = "ap_check"
    /\ \/ \E c \in CheckResults :
            IF Proceeds(c)
            THEN /\ hist' = Verdict(cur[t], c.ok)
                 /\ pc' = Goto(t, "ap_announce")
                 /\ UNCHANGED <<exc, ret>>
            ELSE /\ hist' = Verdict(cur[t], FALSE)
                 /\ pc' = Goto(t, "ap_done")
                 /\ ret' = [ret EXCEPT ![t] = FALSE]
                 /\ exc' = exc
       \/ /\ hist' = Verdict(cur[t], FALSE)
          /\ IF Proceeds([ok |-> FALSE, reason |-> "Error checking"])
             THEN /\ pc' = Goto(t, "ap_announce")
                  /\ ret' = ret
             ELSE /\ pc' = Goto(t, "ap_done")
                  /\ ret' = [ret EXCEPT ![t] = FALSE]
          /\ exc' = exc
       \/ /\ hist' = [hist EXCEPT ![cur[t]].safety = "raised"]
          /\ pc' = Goto(t, "raised")
          /\ exc' = [exc EXCEPT ![t] = "Other"]
          /\ ret' = ret
    /\ UNCHANGED <<configVars, poolVars, seqVars, authVars, pureVars, mainpc,
                   console_lock, urlTok, cur>>

\* with console_lock: console.print("Auto-pulling ...")
AP_Announce(t) ==
    /\ pc[t] = "ap_announce"
    /\ CanAcquire
    /\ pc' = Goto(t, "ap_pull")
    /\ UNCHANGED <<configVars, poolVars, seqVars, authVars, pureVars, mainpc,
                   console_lock, urlTok, cur, exc, ret, hist>>

\* gitExec(rep, "pull --ff-only") and the except clause up to the gate test.
AP_Pull(t) ==
    /\ pc[t] = "ap_pull"
    /\ \E res \in PullResults :
        /\ hist' = RanPull(cur[t], res)
        /\ \/ /\ res = "ok"
              /\ pc' = Goto(t, "ap_ok")
              /\ exc' = exc
           \/ /\ res = "Auth"
              /\ pc' = Goto(t, IF use_https THEN "ap_gate" ELSE "ap_warn")
              /\ exc' = [exc EXCEPT ![t] = "Auth"]
           \/ /\ res = "Other"
              /\ pc' = Goto(t, "ap_warn")
              /\ exc' = [exc EXCEPT ![t] = "Other"]
    /\ UNCHANGED <<configVars, poolVars, seqVars, authVars, pureVars, mainpc,
                   console_lock, urlTok, cur, ret>>

\* The retry of the pull, in its own try block.
AP_Retry(t) ==
    /\ pc[t] = "ap_retry"
    /\ \E res \in PullResults :
        /\ hist' = RanPull(cur[t], res)
        /\ IF res = "ok"
           THEN /\ pc' = Goto(t, "ap_ok")
                /\ exc' = [exc EXCEPT ![t] = "none"]
           ELSE /\ pc' = Goto(t, "ap_fail")
                /\ exc' = [exc EXCEPT ![t] = res]
    /\ UNCHANGED <<configVars, poolVars, seqVars, authVars, pureVars, mainpc,
                   console_lock, urlTok, cur, ret>>

\* with console_lock: console.print("Pulled successfully"); return True
AP_Ok(t) ==
    /\ pc[t] = "ap_ok"
    /\ CanAcquire
    /\ ret' = [ret EXCEPT ![t] = TRUE]
    /\ pc' = Goto(t, "ap_done")
    /\ UNCHANGED <<configVars, poolVars, seqVars, authVars, pureVars, mainpc,
                   console_lock, urlTok, cur, exc, hist>>

\* with console_lock: console.print("Auto-pull failed ..." or "Pull failed even
\* with new token ..."); return False -- the exception ends here.
AP_Warn(t) ==
    /\ pc[t] \in {"ap_warn", "ap_fail"}
    /\ CanAcquire
    /\ exc' = [exc EXCEPT ![t] = "none"]
    /\ ret' = [ret EXCEPT ![t] = FALSE]
    /\ pc' = Goto(t, "ap_done")
    /\ UNCHANGED <<configVars, poolVars, seqVars, authVars, pureVars, mainpc,
                   console_lock, urlTok, cur, hist>>

\* ---------------------------------------------------------- specifications
Pipeline(t) ==
    \/ UR_Https(t) \/ UR_Print(t) \/ UR_Fetch(t) \/ UR_Retry(t)
    \/ \E op \in OpKinds :
          \/ GateTest(t, op) \/ GateFlip(t, op) \/ PromptOpen(t, op)
          \/ PromptAnswer(t, op) \/ SaveToken(t, op) \/ ForceHttps(t, op)
    \/ PR_Branch(t) \/ AP_Check(t) \/ AP_Announce(t) \/ AP_Pull(t)
    \/ AP_Retry(t) \/ AP_Ok(t) \/ AP_Warn(t)

MainNext ==
    \/ Start \/ InitPromptOpen \/ InitPromptAnswer \/ InitSave \/ Dispatch
    \/ Submit \/ Collect \/ CollectDone
    \/ SeqNext \/ SeqUpdated \/ SeqAfterPull \/ SeqCatch

WorkerNext(w) ==
    \/ Take(w) \/ PR_Updated(w) \/ PR_AfterPull(w) \/ PR_Catch(w)

Next ==
    \/ MainNext
    \/ \E w \in Workers : WorkerNext(w)
    \/ \E t \in Threads : Pipeline(t)

Spec == Init /\ [][Next]_vars

\* canSafelyPull as a function of what the git commands report.
CSInputs == [changes : 0..MaxDirty, remotes : RemoteLists]

InitCS ==
    /\ cs_in \in CSInputs
    /\ cs_out = NotApplied
    /\ cs_ran = <<>>
    /\ argopts = [checkremote |-> FALSE, use_https |-> FALSE,
                  autopull |-> FALSE, parallel |-> FALSE, jobs |-> 1]
    /\ nrepo = 0
    /\ GITLAB_TOKEN = NoToken
    /\ tokenAtStart = NoToken
    /\ retry_attempted = [o \in OpKinds |-> FALSE]
    /\ console_lock = Free
    /\ urlTok = [r \in Repos |-> NoToken]
    /\ mainpc = "done"
    /\ nsubmitted = 0
    /\ queue = <<>>
    /\ future = [r \in Repos |-> "none"]
    /\ result = [r \in Repos |-> NewResult]
    /\ outcomes = <<>>
    /\ seqi = 0
    /\ seqlog = [r \in Repos |-> "none"]
    /\ pc = [t \in Threads |-> "idle"]
    /\ cur = [t \in Threads |-> 0]
    /\ exc = [t \in Threads |-> "none"]
    /\ ret = [t \in Threads |-> FALSE]
    /\ new_token = [t \in Threads |-> NoToken]
    /\ hist = [r \in Repos |-> NewHist]
    /\ prompting = [t \in Threads |-> FALSE]
    /\ nprompts = [o \in PromptKinds |-> 0]
    /\ ngrants = [o \in OpKinds |-> 0]
    /\ interrupted = FALSE
    /\ NotCalled

CS_Apply ==
    /\ cs_out = NotApplied
    /\ cs_out' = canSafelyPull(cs_in.changes, cs_in.remotes)
    /\ cs_ran' = canSafelyPullRuns(cs_in.changes, cs_in.remotes)
    /\ UNCHANGED <<configVars, poolVars, seqVars, authVars, cs_in, mainpc,
                   console_lock, urlTok, pc, cur, exc, ret, hist>>

SpecCS == InitCS /\ [][CS_Apply]_vars

\* ----------------------------------------------------------------- gitExec
\* A diagnostic text is a sequence of tokens: a phrase, and whether git wrote
\* it with capital letters.  str.lower() clears the capitals; "x in text" is
\* the search for a run of tokens.
MaxLen == 2

Phrases == {"timed", "out", "timeout", "could not resolve host",
            "permission denied", "authentication failed", "fatal"}

Token == [base : Phrases, cap : BOOLEAN]

Texts == UNION {[1..n -> Token] : n \in 0..MaxLen}

L(b) == [base |-> b, cap |-> FALSE]

U(b) == [base |-> b, cap |-> TRUE]

\* Variant: the text is compared as it is written.
lowerNot(text) == text

lower(text) == [i \in 1..Len(text) |-> L(text[i].base)]

Contains(text, sub) ==
    \E i \in 1..(Len(text) - Len(sub) + 1) :
        SubSeq(text, i, i + Len(sub) - 1) = sub

\* The messages gitExec raises in place of the text of a known failure.
NetworkTimeoutMsg ==
    <<U("network"), L("timeout"),
      L("check your connection or remote server status")>>

DnsMsg == <<U("dns resolution failed"), L("check your network connection")>>

AuthMsg == <<U("authentication failed"), L("check ssh key or credentials")>>

UnknownErrorMsg == <<U("unknown error")>>

\* error_msg = errors.decode('utf-8') if errors else 'Unknown error', and the
\* if / elif chain that follows it.
RaisedMessage(errors) ==
    LET error_msg == IF errors # <<>> THEN errors ELSE UnknownErrorMsg
    IN  IF \/ Contains(lower(error_msg), <<L("timed"), L("out")>>)
           \/ Contains(lower(error_msg), <<L("timeout")>>)
        THEN NetworkTimeoutMsg
        ELSE IF Contains(lower(error_msg), <<L("could not resolve host")>>)
        THEN DnsMsg
        ELSE IF Contains(lower(error_msg), <<L("permission denied")>>)
        THEN AuthMsg
        ELSE error_msg

auth_indicators ==
    {<<L("authentication failed")>>, <<L("invalid credentials")>>,
     <<L("token expired")>>, <<L("unauthorized")>>,
     <<L("http basic: access denied")>>, <<L("ssl certificate problem")>>,
     <<L("certificate verify failed")>>, <<L("could not read username")>>,
     <<L("could not read password")>>, <<L("401")>>, <<L("403")>>}

isAuthenticationError(error_message) ==
    \E indicator \in auth_indicators :
        Contains(lower(error_message), indicator)

\* The git commands of the pipeline and the timeout each call site passes.
GitCommands == {"remote", "remote get-url", "remote set-url", "remote update",
                "branch", "status -s", "branch -r", "log", "pull --ff-only"}

CallTimeout(cmd) == IF cmd = "remote update" THEN <<30>> ELSE None

\* What the subprocess does: how long it runs ("short": less than any
\* timeout, "long": longer than 30 s, "forever": it never ends by itself),
\* its exit status and what it wrote to stderr.
Commands ==
    [cmd : GitCommands, lasts : {"short", "long", "forever"},
     returncode : 0..1, errors : Texts]

EngineOff ==
    /\ cs_in = [changes |-> 0, remotes |-> <<>>]
    /\ cs_out = NotApplied
    /\ cs_ran = <<>>
    /\ argopts = [checkremote |-> FALSE, use_https |-> FALSE,
                  autopull |-> FALSE, parallel |-> FALSE, jobs |-> 1]
    /\ nrepo = 0
    /\ GITLAB_TOKEN = NoToken
    /\ tokenAtStart = NoToken
    /\ retry_attempted = [o \in OpKinds |-> FALSE]
    /\ console_lock = Free
    /\ urlTok = [r \in Repos |-> NoToken]
    /\ mainpc = "done"
    /\ nsubmitted = 0
    /\ queue = <<>>
    /\ future = [r \in Repos |-> "none"]
    /\ result = [r \in Repos |-> NewResult]
    /\ outcomes = <<>>
    /\ seqi = 0
    /\ seqlog = [r \in Repos |-> "none"]
    /\ pc = [t \in Threads |-> "idle"]
    /\ cur = [t \in Threads |-> 0]
    /\ exc = [t \in Threads |-> "none"]
    /\ ret = [t \in Threads |-> FALSE]
    /\ new_token = [t \in Threads |-> NoToken]
    /\ hist = [r \in Repos |-> NewHist]
    /\ prompting = [t \in Threads |-> FALSE]
    /\ nprompts = [o \in PromptKinds |-> 0]
    /\ ngrants = [o \in OpKinds |-> 0]
    /\ interrupted = FALSE

InitExec ==
    /\ EngineOff
    /\ \E c \in Commands :
          gx_in = [timeout |-> CallTimeout(c.cmd), cmd |-> c.cmd,
                   lasts |-> c.lasts, returncode |-> c.returncode,
                   errors |-> c.errors]
    /\ gx_pc = "call"
    /\ popen = "none"
    /\ gx_exc = NoException
    /\ UrlsOff

engineVars == <<argopts, nrepo, tokenAtStart, interrupted, poolVars, seqVars,
                authVars, pureVars, urlVars, searchVars, mainpc, console_lock,
                urlTok, pc, cur, exc, ret, hist>>

\* p = subprocess.Popen(cmdargs, stdout=PIPE, stderr=PIPE, env=env)
GX_Popen ==
    /\ gx_pc = "call"
    /\ popen' = "running"
    /\ gx_pc' = "communicate"
    /\ UNCHANGED <<engineVars, gx_in, gx_exc>>

\* output, errors = p.communicate(timeout=timeout): it returns when the
\* process has ended, and raises TimeoutExpired when the timeout passes
\* first.  With timeout=None it waits as long as the process lasts.
GX_Communicate ==
    /\ gx_pc = "communicate"
    /\ IF gx_in.lasts = "short" \/ (gx_in.timeout = None /\ gx_in.lasts = "long")
       THEN /\ popen' = "reaped"
            /\ gx_pc' = "returncode"
       ELSE /\ gx_in.timeout # None
            /\ popen' = popen
            /\ gx_pc' = "expired"
    /\ UNCHANGED <<engineVars, gx_in, gx_exc>>

\* The process ends by itself after the timeout, before it is killed.
GX_Exit ==
    /\ gx_pc = "expired"
    /\ popen = "running"
    /\ gx_in.lasts = "long"
    /\ popen' = "exited"
    /\ UNCHANGED <<engineVars, gx_in, gx_pc, gx_exc>>

\* except subprocess.TimeoutExpired: p.kill()
GX_Kill ==
    /\ gx_pc = "expired"
    /\ popen' = IF popen = "running" THEN "killed" ELSE popen
    /\ gx_pc' = "cleanup"
    /\ UNCHANGED <<engineVars, gx_in, gx_exc>>

\* Variant: the killed process is not waited for.
ReapSkipped(st) == st

\* p.communicate()  # Clean up
Reap(st) == "reaped"

GX_Cleanup ==
    /\ gx_pc = "cleanup"
    /\ popen' = Reap(popen)
    /\ gx_pc' = "raise"
    /\ UNCHANGED <<engineVars, gx_in, gx_exc>>

\* raise subprocess.TimeoutExpired(cmdargs, timeout)
GX_RaiseTimeout ==
    /\ gx_pc = "raise"
    /\ gx_exc' = [type |-> "TimeoutExpired", msg |-> <<>>]
    /\ gx_pc' = "raised"
    /\ UNCHANGED <<engineVars, gx_in, popen>>

\* if p.returncode: ... raise Exception(...); return output.decode('utf-8')
GX_Return ==
    /\ gx_pc = "returncode"
    /\ IF gx_in.returncode # 0
       THEN /\ gx_exc' = [type |-> "Exception",
                          msg |-> RaisedMessage(gx_in.errors)]
            /\ gx_pc' = "raised"
       ELSE /\ gx_exc' = [type |-> "return", msg |-> <<>>]
            /\ gx_pc' = "returned"
    /\ UNCHANGED <<engineVars, gx_in, popen>>

NextExec ==
    \/ GX_Popen \/ GX_Communicate \/ GX_Exit \/ GX_Kill \/ GX_Cleanup
    \/ GX_RaiseTimeout \/ GX_Return

\* The thread that called gitExec keeps running.
SpecExec == InitExec /\ [][NextExec]_vars /\ WF_vars(NextExec)

\* ------------------------------------------------ interrupt of a parallel run
\* A parallel run over plain remotes (HTTPS mode off), in which the operator
\* may press Ctrl-C once while gitcheck() waits in as_completed.
InitPool ==
    /\ Init
    /\ argopts.checkremote /\ argopts.parallel /\ ~argopts.use_https
    /\ nrepo > 1

\* KeyboardInterrupt is raised in the main thread inside the two with-blocks;
\* ThreadPoolExecutor.__exit__ calls shutdown(wait=True).
Interrupt ==
    /\ mainpc = "collect"
    /\ ~interrupted
    /\ interrupted' = TRUE
    /\ mainpc' = "shutdown"
    /\ UNCHANGED <<argopts, nrepo, tokenAtStart, execVars, urlVars, searchVars,
                   poolVars, seqVars, authVars, pureVars, console_lock, urlTok,
                   pc, cur, exc, ret, hist>>

\* shutdown(wait=True) joins the pool threads; a pool thread ends when the
\* work queue is empty.  Then: except KeyboardInterrupt: print; raise, and
\* main() leaves through sys.exit(0).
ShutdownJoined ==
    /\ mainpc = "shutdown"
    /\ queue = <<>>
    /\ \A w \in Workers : pc[w] = "idle"
    /\ mainpc' = "exit"
    /\ UNCHANGED <<configVars, poolVars, seqVars, authVars, pureVars,
                   console_lock, urlTok, pc, cur, exc, ret, hist>>

PoolPipeline(w) ==
    \/ Take(w) \/ PR_Updated(w) \/ PR_AfterPull(w) \/ PR_Catch(w)
    \/ UR_Https(w) \/ UR_Fetch(w)
    \/ PR_Branch(w) \/ AP_Check(w) \/ AP_Announce(w) \/ AP_Pull(w)
    \/ AP_Ok(w) \/ AP_Warn(w)

NextInt ==
    \/ Start \/ Dispatch \/ Submit \/ Collect \/ CollectDone
    \/ Interrupt \/ ShutdownJoined
    \/ \E w \in Workers : PoolPipeline(w)

SpecInt == InitPool /\ [][NextInt]_vars

\* ---------------------------------------------------------- URL conversion
\* A remote URL is a sequence of tokens: the scheme, an optional user part, a
\* credential, the host, separators and the path.  The string operations of
\* https_utils ('in', startswith, replace, re.sub, re.match) work on it as
\* they work on the characters.
MaxCalls == 2
Hosts == {"h", "g"}
Paths == {"p"}
Placeholder == "***TOKEN***"

GitProtocol(h, p) == <<"git://", h, "/", p>>
SshShorthand(h, p) == <<"git@", h, ":", p>>
SshUsers == {<<>>, <<"git@">>, <<"alice", "@">>}
SshUrl(user, h, p) == <<"ssh://">> \o user \o <<h, "/", p>>
HttpsBare(h, p) == <<"https://", h, "/", p>>
HttpsTokened(tok, h, p) == <<"https://", "oauth2:", tok, "@", h, "/", p>>

\* The URLs a remote can have: the five forms the conversion knows, plain
\* http and a local path.
RemoteUrls ==
    UNION {{GitProtocol(h, p), SshShorthand(h, p), HttpsBare(h, p),
            <<"http://", h, "/", p>>, <<"/", p>>}
           \cup {SshUrl(u, h, p) : u \in SshUsers}
           \cup {HttpsTokened(tok, h, p) : tok \in Tokens}
           : h \in Hosts, p \in Paths}

RemoteUrlLists == UNION {[1..n -> RemoteUrls] : n \in 0..MaxRemotes}

\* str.startswith
startswith(text, prefix) ==
    /\ Len(text) >= Len(prefix)
    /\ SubSeq(text, 1, Len(prefix)) = prefix

\* Variant: nothing is replaced.
replaceNothing(text, old, new) == text

\* str.replace: every occurrence, left to right.
RECURSIVE replace(_, _, _)
replace(text, old, new) ==
    IF text = <<>> THEN <<>>
    ELSE IF startswith(text, old)
         THEN new \o replace(SubSeq(text, Len(old) + 1, Len(text)), old, new)
         ELSE <<Head(text)>> \o replace(Tail(text), old, new)

\* The token holds the character '@'.
HasAt(tok) == tok \in {"@", "git@"}

\* Length of the match of r'https://oauth2:[^@]+@' at the start of the text,
\* 0 when there is none.
OauthMatch(text) ==
    IF /\ Len(text) >= 4
       /\ text[1] = "https://" /\ text[2] = "oauth2:" /\ ~HasAt(text[3])
       /\ \E k \in 4..Len(text) : HasAt(text[k])
    THEN CHOOSE k \in 4..Len(text) :
            HasAt(text[k]) /\ \A j \in 3..(k - 1) : ~HasAt(text[j])
    ELSE 0

\* Variant: the old credential is left in the URL.
sub_oauth2Kept(text) == text

\* re.sub(r'https://oauth2:[^@]+@', 'https://', current_url)
RECURSIVE sub_oauth2(_)
sub_oauth2(text) ==
    IF text = <<>> THEN <<>>
    ELSE IF OauthMatch(text) > 0
         THEN <<"https://">>
              \o sub_oauth2(SubSeq(text, OauthMatch(text) + 1, Len(text)))
         ELSE <<Head(text)>> \o sub_oauth2(Tail(text))

\* re.match(r'git@([^:]+):(.+)', clean_url): the position of the colon that
\* ends the host, 0 when there is no match.
ShorthandMatch(text) ==
    IF /\ Len(text) >= 4 /\ text[1] = "git@" /\ text[2] # ":"
       /\ \E k \in 3..(Len(text) - 1) : text[k] = ":"
    THEN CHOOSE k \in 3..(Len(text) - 1) :
            text[k] = ":" /\ \A j \in 2..(k - 1) : text[j] # ":"
    ELSE 0

\* match = re.match(r'https://(.+)', url);
\* f'https://oauth2:{gitlab_token}@{match.group(1)}', None without a match.
WithToken(url, gitlab_token) ==
    IF startswith(url, <<"https://">>) /\ Len(url) >= 2
    THEN <<(<<"https://", "oauth2:", gitlab_token, "@">> \o Tail(url))>>
    ELSE None

\* The first part of convertRemoteToHttps: new_url as the four branches on
\* clean_url leave it, None when no branch applies.
RewriteScheme(clean_url, gitlab_token) ==
    IF startswith(clean_url, <<"git://">>)
    THEN <<replace(clean_url, <<"git://">>, <<"https://">>)>>
    ELSE IF startswith(clean_url, <<"git@">>)
    THEN IF ShorthandMatch(clean_url) > 0
         THEN <<(<<"https://">>
                 \o SubSeq(clean_url, 2, ShorthandMatch(clean_url) - 1)
                 \o <<"/">>
                 \o SubSeq(clean_url, ShorthandMatch(clean_url) + 1,
                           Len(clean_url)))>>
         ELSE None
    ELSE IF startswith(clean_url, <<"ssh://">>)
    THEN <<replace(replace(clean_url, <<"ssh://", "git@">>, <<"https://">>),
                   <<"ssh://">>, <<"https://">>)>>
    ELSE IF startswith(clean_url, <<"https://">>) /\ gitlab_token # NoToken
    THEN WithToken(clean_url, gitlab_token)
    ELSE None

\* if gitlab_token and 'oauth2:' not in new_url: inject the token.
InjectToken(new_url, gitlab_token) ==
    IF /\ gitlab_token # NoToken
       /\ ~Contains(new_url, <<"oauth2:">>)
       /\ WithToken(new_url, gitlab_token) # None
    THEN WithToken(new_url, gitlab_token)[1]
    ELSE new_url

\* display_url = new_url.replace(gitlab_token, '***TOKEN***')
display_url(new_url, gitlab_token) ==
    IF gitlab_token # NoToken
    THEN replace(new_url, <<gitlab_token>>, <<Placeholder>>)
    ELSE new_url

\* Variant: a URL that carries the current token is converted again.
AlreadyCurrentNever(current_url, gitlab_token, force_update) == FALSE

\* if not force_update and current_url.startswith('https://') and
\*    gitlab_token and f'oauth2:{gitlab_token}@' in current_url:
AlreadyCurrent(current_url, gitlab_token, force_update) ==
    /\ ~force_update
    /\ startswith(current_url, <<"https://">>)
    /\ gitlab_token # NoToken
    /\ Contains(current_url, <<"oauth2:", gitlab_token, "@">>)

\* What convertRemoteToHttps returns, the set-url command it issued (None or
\* the URL given to it) and the URL of the remote afterwards.  set_ok: the
\* set-url command succeeds; otherwise gitExec raises with git's diagnostic.
Answer(success, message, seturl, url) ==
    [success |-> success, message |-> message, seturl |-> seturl, url |-> url]

convertRemoteToHttps(current_url, gitlab_token, force_update, set_ok) ==
    LET clean_url == IF Contains(current_url, <<"oauth2:">>)
                     THEN sub_oauth2(current_url) ELSE current_url
        new_url == RewriteScheme(clean_url, gitlab_token)
    IN  IF current_url = <<>>
        THEN Answer(FALSE, <<"No remote URL found">>, None, current_url)
        ELSE IF AlreadyCurrent(current_url, gitlab_token, force_update)
        THEN Answer(FALSE, <<"Already using HTTPS with current token">>,
                    None, current_url)
        ELSE IF new_url = None
        THEN Answer(FALSE, <<"URL format not recognized for conversion">>,
                    None, current_url)
        ELSE LET final == InjectToken(new_url[1], gitlab_token)
             IN  IF set_ok
                 THEN Answer(TRUE,
                             <<"Converted ">> \o current_url \o <<" -> ">>
                                 \o display_url(final, gitlab_token),
                             <<final>>, final)
                 ELSE Answer(FALSE, <<"Error: ", "git diagnostic">>,
                             <<final>>, current_url)

\* for remote in remotes: success, message = convert_func(rep, remote, ...)
Conversions(urls, gitlab_token, force_update, fails) ==
    [i \in 1..Len(urls) |->
        convertRemoteToHttps(urls[i], gitlab_token, force_update, i # fails)]

\* Variant: every remote is appended.
ConvertedAll(results, i) ==
    [k \in 1..Len(results) |->
        [remote |-> k, message |-> results[k].message]]

\* converted.append((remote, message)) for the remotes with success.
RECURSIVE Converted(_, _)
Converted(results, i) ==
    IF i > Len(results) THEN <<>>
    ELSE (IF results[i].success
          THEN <<[remote |-> i, message |-> results[i].message]>>
          ELSE <<>>) \o Converted(results, i + 1)

\* console.print(f"  -> {remote}: {message}") when verbose.
Printed(converted, verbose) ==
    IF verbose
    THEN [k \in 1..Len(converted) |->
             <<"-> ", ToString(converted[k].remote), ": ">>
                 \o converted[k].message]
    ELSE <<>>

InitUrl ==
    /\ EngineOff
    /\ gx_in = NoCommand
    /\ gx_pc = "off"
    /\ popen = "none"
    /\ gx_exc = NoException
    /\ remote_url \in RemoteUrlLists
    /\ \E v \in BOOLEAN :
          eh_in = [NoEnsure EXCEPT !.origin = remote_url, !.verbose = v]
    /\ eh_out = NoEnsured
    /\ sr_in = NoSearch
    /\ sr_out = NotSearched

\* One call of ensureHttpsRemotes on the repository, with the token the
\* environment holds and the force_update the caller gives.
EnsureHttps ==
    /\ eh_in.calls < MaxCalls
    /\ \E gitlab_token \in Tokens \cup {NoToken}, force_update \in BOOLEAN,
          fails \in 0..Len(remote_url) :
          LET results == Conversions(remote_url, gitlab_token, force_update,
                                     fails)
              converted == Converted(results, 1)
          IN  /\ eh_in' = [eh_in EXCEPT !.before = remote_url,
                                        !.gitlab_token = gitlab_token,
                                        !.force_update = force_update,
                                        !.fails = fails,
                                        !.calls = @ + 1]
              /\ remote_url' = [i \in 1..Len(results) |-> results[i].url]
              /\ eh_out' = [converted |-> converted, results |-> results,
                            printed |-> Printed(converted, eh_in.verbose),
                            any |-> Len(converted) > 0]
    /\ UNCHANGED <<argopts, nrepo, tokenAtStart, interrupted, execVars,
                   searchVars, poolVars, seqVars, authVars, pureVars, mainpc,
                   console_lock, urlTok, pc, cur, exc, ret, hist>>

SpecUrl == InitUrl /\ [][EnsureHttps]_vars

\* ------------------------------------------------------ searchRepositories
\* A directory is the sequence of the names that lead to it from the root of
\* the file system; every directory of at most MaxLevel names exists.  A path
\* is written as text: a sequence of separators and names.
MaxLevel == 2
Names == {"a", "b"}
Sep == "/"
CharOrder == <<"/", "a", "b">>

Dirs == UNION {[1..n -> Names] : n \in 0..MaxLevel}

\* os.path.abspath of a directory: "/" for the root, "/a/b" below it.
PathText(d) ==
    IF d = <<>> THEN <<Sep>>
    ELSE [i \in 1..(2 * Len(d)) |-> IF i % 2 = 1 THEN Sep ELSE d[i \div 2]]

\* The ways the operator writes a search directory: as it is, or with a
\* separator at its end.
RootTexts ==
    {PathText(d) : d \in {e \in Dirs : Len(e) < MaxLevel}}
    \cup {PathText(d) \o <<Sep>> : d \in {e \in Dirs : 0 < Len(e) /\ Len(e) < MaxLevel}}

\* argopts['depth']: unset, or the int given with --maxdepth.
Depths == {None} \cup {<<n>> : n \in 0..MaxLevel}

SearchInputs ==
    [git : SUBSET Dirs,
     searchDir : UNION {[1..n -> RootTexts] : n \in 1..MaxRemotes},
     depth : Depths]

\* str.count(os.sep)
count(text) == Cardinality({i \in 1..Len(text) : text[i] = Sep})

\* if curdir[-1:] == '/': curdir = curdir[:-1]
StripSlash(curdir) ==
    IF curdir # <<>> /\ curdir[Len(curdir)] = Sep
    THEN SubSeq(curdir, 1, Len(curdir) - 1)
    ELSE curdir

\* os.path.join(top, names below top)
join(top, below) ==
    IF below = <<>> THEN top
    ELSE IF top[Len(top)] = Sep THEN top \o Tail(PathText(below))
    ELSE top \o PathText(below)

\* os.walk(curdir): one entry for the directory the text names and for each
\* directory below it; nothing when the text names no directory.
walk(curdir, git) ==
    IF \E d \in Dirs : PathText(d) = curdir
    THEN LET top == CHOOSE d \in Dirs : PathText(d) = curdir
         IN  {[directory |-> join(curdir, below),
               dotgit |-> (top \o below) \in git] :
                 below \in {b \in Dirs : (top \o b) \in Dirs}}
    ELSE {}

\* argopts.get('depth', None) is None or level <= argopts.get('depth', None)
InDepth(level, depth) == depth = None \/ level <= depth[1]

\* The body of 'for curdir in dirs': the directories added to repo.
Scan(dir, depth, git) ==
    LET curdir == StripSlash(dir)
        startinglevel == count(curdir)
    IN  {w.directory : w \in
            {v \in walk(curdir, git) :
                /\ InDepth(count(v.directory) - startinglevel, depth)
                /\ v.dotgit}}

\* The order of str: character by character, a prefix first.
Rank(c) == CHOOSE i \in 1..Len(CharOrder) : CharOrder[i] = c

RECURSIVE Less(_, _)
Less(x, y) ==
    IF y = <<>> THEN FALSE
    ELSE IF x = <<>> THEN TRUE
    ELSE IF Head(x) = Head(y) THEN Less(Tail(x), Tail(y))
    ELSE Rank(Head(x)) < Rank(Head(y))

\* sorted(repo)
RECURSIVE sorted(_)
sorted(S) ==
    IF S = {} THEN <<>>
    ELSE LET m == CHOOSE x \in S : \A y \in S \ {x} : Less(x, y)
         IN  <<m>> \o sorted(S \ {m})

searchRepositories(in) ==
    sorted(UNION {Scan(in.searchDir[k], in.depth, in.git) :
                     k \in 1..Len(in.searchDir)})

InitSearch ==
    /\ EngineOff
    /\ gx_in = NoCommand
    /\ gx_pc = "off"
    /\ popen = "none"
    /\ gx_exc = NoException
    /\ remote_url = <<>>
    /\ eh_in = NoEnsure
    /\ eh_out = NoEnsured
    /\ sr_in \in SearchInputs
    /\ sr_out = NotSearched

SR_Apply ==
    /\ ~sr_out.done
    /\ sr_out' = [done |-> TRUE, repo |-> searchRepositories(sr_in)]
    /\ UNCHANGED <<argopts, nrepo, tokenAtStart, interrupted, execVars,
                   urlVars, sr_in, poolVars, seqVars, authVars, pureVars,
                   mainpc, console_lock, urlTok, pc, cur, exc, ret, hist>>

SpecSearch == InitSearch /\ [][SR_Apply]_vars

\* ------------------------------------------------------------------ claims
Finished(r) == future[r] \in {"finished", "yielded"}

ParallelRun == argopts.checkremote /\ argopts.parallel /\ nrepo > 1

\* C1: a pull command is issued for a repository only after the safety check
\* of that pass reported it eligible; a repository found ineligible is
\* skipped and no pull command is issued for it.
C1_PullOnlyWhenEligible ==
    \A r \in Repos :
        /\ hist[r].pull > 0 => hist[r].safety = "safe"
        /\ hist[r].safety \in {"unsafe", "raised"} => hist[r].pull = 0
        /\ \A t \in Threads :
              cur[t] = r /\ pc[t] \in {"ap_announce", "ap_pull"}
                 => hist[r].safety = "safe"

C1_Witness ==
    \E r1, r2 \in Repos :
        /\ hist[r1].pull > 0 /\ hist[r1].safety = "safe"
        /\ hist[r2].safety = "unsafe" /\ hist[r2].pull = 0 /\ Finished(r2)

\* Eligibility as an order-independent condition on the remotes.
SpecEligible(changes, remotes) ==
    /\ changes = 0
    /\ Len(remotes) >= 1
    /\ \E i \in 1..Len(remotes) :
          getRemoteToPull(remotes[i]) > 0 /\ getLocalToPush(remotes[i]) = 0

\* C2: canSafelyPull reports eligible exactly when there are no dirty files,
\* at least one remote, and some remote has behind > 0 and ahead = 0,
\* whatever the order of the remotes.
C2_EligibleIffSomeRemoteBehind ==
    cs_out # NotApplied
        => (cs_out.ok <=> SpecEligible(cs_in.changes, cs_in.remotes))

\* C3: the update retry is granted for the first authentication failure of the
\* remote refresh and for no later one.
C3_UpdateRetryGrantedOnce == ngrants["update"] <= 1

\* C4: at most one re-authentication prompt is issued per opKind per run,
\* under every interleaving of the workers.
C4_OnePromptPerOpKind == \A op \in OpKinds : nprompts[op] <= 1

\* updateRemote has returned or raised for repository r.
UpdateEnded(r) ==
    \/ \E t \in Threads : cur[t] = r /\ pc[t] \in {"raised", "ur_done"}
    \/ Finished(r)
    \/ seqlog[r] # "none"

\* The retry of the refresh was made for r with a replacement token and failed.
RetryFailed(r) ==
    "update" \in hist[r].supplied /\ hist[r].fetch >= 2
        /\ hist[r].lastfetch = "fail"

\* C5 as stated: once the update gate let the authentication failure of a
\* repository through, the refresh is retried exactly once for it.
C5_GrantedRetriesOnce ==
    \A r \in Repos :
        "update" \in hist[r].granted /\ UpdateEnded(r) => hist[r].fetch = 2

\* C5 amended: when the refresh fails with an authentication error, the retry
\* is granted and the operator supplies a non-empty replacement token, the
\* refresh is retried exactly once for that repository; if the retry fails
\* too, the failure is that repository's terminal error, no further command
\* of its pipeline runs for it, and the remaining repositories are still
\* processed.
C5_SuppliedRetriesOnce ==
    /\ \A r \in Repos :
        /\ hist[r].fetch <= 2
        /\ hist[r].fetch = 2 => "update" \in hist[r].supplied
        /\ "update" \in hist[r].supplied /\ UpdateEnded(r) => hist[r].fetch = 2
        /\ RetryFailed(r) =>
              /\ hist[r].branch = 0 /\ hist[r].pull = 0
              /\ hist[r].safety = "none"
              /\ \A t \in Threads : cur[t] = r => pc[t] = "raised"
              /\ Finished(r) => /\ result[r].error # "None"
                                /\ ~result[r].success
                                /\ ~result[r].updated
              /\ seqlog[r] # "none" => seqlog[r] = "failed"
    /\ mainpc = "done" /\ argopts.checkremote =>
          \A r \in repo : IF ParallelRun THEN future[r] = "yielded"
                                         ELSE seqlog[r] # "none"

C5_Witness ==
    /\ mainpc = "done"
    /\ \E r1, r2 \in repo :
        /\ r1 < r2
        /\ RetryFailed(r1) /\ Finished(r1)
        /\ Finished(r2) /\ result[r2].success

\* C6: a parallel run over N repositories yields exactly N outcomes, one per
\* repository path, none missing and none twice, whatever the order in which
\* the workers complete.
C6_OneOutcomePerRepository ==
    /\ \A i, j \in 1..Len(outcomes) :
          outcomes[i].path = outcomes[j].path => i = j
    /\ mainpc = "done" /\ ParallelRun =>
          /\ Len(outcomes) = nrepo
          /\ {outcomes[i].path : i \in 1..Len(outcomes)} = repo

C6_Witness ==
    /\ mainpc = "done"
    /\ Len(outcomes) = nrepo
    /\ nrepo > 1
    /\ outcomes[1].path > outcomes[2].path

\* C7: processRepository returns an outcome for every repository whatever
\* fails in its pipeline; no failure propagates to the worker pool.
C7_NoFailureEscapes ==
    \A r \in Repos :
        /\ future[r] \notin {"exception", "yielded_exception"}
        /\ Finished(r) =>
              (result[r].success <=> result[r].error = "None")

C7_Witness ==
    \E r1, r2 \in Repos :
        /\ Finished(r1) /\ result[r1].error = "Other" /\ hist[r1].branch = 1
        /\ Finished(r2)
        /\ result[r2].error = "Timeout (30s) - remote not responding"

\* C8: when the pull of an eligible repository fails terminally, the outcome
\* of that repository carries an error and is not a success.
C8_PullFailureIsReported ==
    \A r \in Repos :
        Finished(r) /\ hist[r].pull > 0 /\ hist[r].lastpull = "fail"
            => result[r].error # "None" /\ ~result[r].success

\* Some repository has been submitted, taken up or worked on.
ProcessingStarted ==
    \/ \E t \in Threads : pc[t] # "idle"
    \/ \E r \in Repos : future[r] # "none" \/ hist[r] # NewHist
    \/ queue # <<>>
    \/ seqi > 0

\* C9: when HTTPS mode is on and no token is held at the start of the run,
\* the token prompt is issued and completed before any repository is taken
\* up.
C9_PromptBeforeWorkers ==
    argopts.use_https /\ tokenAtStart = NoToken /\ ProcessingStarted
        => /\ nprompts["initial"] = 1
           /\ mainpc \notin {"start", "init_prompt", "init_ask", "init_save"}

C9_Witness ==
    /\ argopts.use_https /\ tokenAtStart = NoToken
    /\ nprompts["initial"] = 1
    /\ \E w \in Workers : pc[w] = "ur_fetch"

\* C10: never are two interactive token prompts open at once.
C10_OnePromptInFlight == Cardinality({t \in Threads : prompting[t]}) <= 1

C10_Witness ==
    \E t1, t2 \in Threads :
        /\ t1 # t2
        /\ prompting[t1]
        /\ pc[t2] \in {"ur_prompt", "ap_prompt"}

\* Thread w takes a step that reads or writes a retry gate or the token.
TouchesAuthState(w) ==
    /\ pc'[w] # pc[w]
    /\ \/ pc[w] \in {ReauthPc[op].gate : op \in OpKinds}
       \/ retry_attempted' # retry_attempted
       \/ GITLAB_TOKEN' # GITLAB_TOKEN

\* C11: every step of a worker that reads or writes the retry gates or the
\* token is taken while that worker holds console_lock.
C11_AuthStateUnderLock ==
    [][\A w \in Workers : TouchesAuthState(w) => console_lock = w]_vars

\* The only refresh of r failed with an authentication error and r's outcome
\* is that error.
RefreshAuthFailed(r) ==
    /\ Finished(r)
    /\ hist[r].fetch = 1 /\ hist[r].lastfetch = "fail"
    /\ result[r].error = "Auth"

\* C12: the outcome of a repository does not depend on the other repositories
\* of the batch nor on the order of the workers.  A repository meets the
\* update gate at most once in a run, so on its own it always finds the gate
\* open: in HTTPS mode a repository that ends with the authentication error of
\* its first refresh was offered the retry, whatever the others did.
C12_OutcomeIndependentOfOthers ==
    \A r \in Repos :
        argopts.use_https /\ RefreshAuthFailed(r) => "update" \in hist[r].granted

\* The repositories some pool thread is processing.
InProcess == {r \in Repos : future[r] = "running"}

\* A pool thread lets go of a repository only by finishing its future.
CarriesToCompletion(w) ==
    cur'[w] # cur[w] =>
        \/ cur[w] = 0 /\ pc[w] = "idle" /\ pc'[w] = "ur_https"
        \/ /\ cur'[w] = 0 /\ pc'[w] = "idle"
           /\ pc[w] \in {"ur_done", "ap_done", "no_branch", "raised"}
           /\ future'[cur[w]] \in {"finished", "exception"}

\* C13: in a parallel run at most max_workers repositories are in process at
\* once, each by exactly one pool thread, and a pool thread takes another
\* repository only after the pipeline of its current one has ended.
C13_BoundedPoolWholePipelines ==
    /\ [](/\ Cardinality(InProcess) <= argopts.jobs
          /\ \A r \in InProcess : Cardinality({w \in Workers : cur[w] = r}) = 1
          /\ \A w \in Workers : cur[w] # 0 => cur[w] \in InProcess
          /\ \A w \in Workers : (pc[w] = "idle") <=> (cur[w] = 0))
    /\ [][\A w \in Workers : CarriesToCompletion(w)]_vars

C13_Witness ==
    /\ argopts.jobs = 1 /\ nrepo = 2
    /\ queue = <<>>
    /\ future[1] = "finished" /\ future[2] = "running"
    /\ hist[1].pull > 0

\* C14: after the operator's interrupt of a parallel run no repository that
\* was still queued is taken up by a pool thread.
C14_InterruptStopsQueued ==
    [][interrupted =>
          \A r \in Repos : future[r] = "pending" => future'[r] = "pending"]_vars

\* C15: every git command of the pipeline is bounded by a timeout: a call of
\* gitExec made by the pipeline is never blocked for good, it has returned or
\* raised or it can take a further step.
C15_EveryCommandEnds ==
    gx_pc \in {"returned", "raised"} \/ ENABLED NextExec

\* The texts an outcome carries for a refresh that exceeded its timeout.
TimeoutErrors ==
    {"Network timeout - remote server not responding",
     "Timeout (30s) - remote not responding"}

\* C16: when the refresh of a repository exceeds its 30 s timeout, at the
\* first attempt or at the retry, updateRemote raises a timeout failure at
\* once (no retry gate is consulted for it, nothing more runs for the
\* repository) and the outcome carries a timeout text, not a raw failure.
C16_RefreshTimeoutIsTimeoutError ==
    \A r \in Repos :
        hist[r].timedout =>
            /\ \A t \in Threads :
                  cur[t] = r => /\ pc[t] = "raised"
                                /\ exc[t] \in {"NetTimeout", "TimeoutExpired"}
            /\ Finished(r) => /\ result[r].error \in TimeoutErrors
                              /\ ~result[r].success /\ ~result[r].updated
            /\ hist[r].fetch = 1 =>
                  hist[r].granted = {} /\ hist[r].prompted = {}
            /\ hist[r].fetch = 2 => hist[r].prompted = {"update"}
            /\ hist[r].branch = 0 /\ hist[r].pull = 0

C16_Witness ==
    \E r1, r2 \in Repos :
        /\ hist[r1].timedout /\ hist[r1].fetch = 1 /\ Finished(r1)
        /\ result[r1].error = "Network timeout - remote server not responding"
        /\ hist[r2].timedout /\ hist[r2].fetch = 2 /\ Finished(r2)

\* C17: when gitExec delivers TimeoutExpired to its caller, the subprocess it
\* started has been killed and waited for; nor is a subprocess left behind
\* when gitExec returns or raises otherwise.
C17_TimedOutSubprocessIsReaped ==
    /\ gx_exc.type = "TimeoutExpired" =>
          /\ popen = "reaped"
          /\ gx_in.timeout # None /\ gx_in.lasts # "short"
    /\ gx_pc \in {"raised", "returned"} => popen = "reaped"
    /\ popen \in {"killed", "exited"} => gx_pc \in {"expired", "cleanup"}

C17_Witness ==
    /\ gx_exc.type = "TimeoutExpired"
    /\ gx_in.lasts = "forever"
    /\ popen = "reaped"

\* The phrases of a text, whatever their capitals, and the search in them.
Bases(text) == [i \in 1..Len(text) |-> text[i].base]

HasPhrase(text, phrases) == Contains(Bases(text), phrases)

HasAuthIndicator(text) ==
    \E indicator \in auth_indicators : HasPhrase(text, Bases(indicator))

MatchesTimeout(text) ==
    HasPhrase(text, <<"timed", "out">>) \/ HasPhrase(text, <<"timeout">>)

MatchesDns(text) == HasPhrase(text, <<"could not resolve host">>)

\* The kind the priority order gives to a diagnostic text.
ExpectedKind(text) ==
    IF MatchesTimeout(text) THEN "Timeout"
    ELSE IF MatchesDns(text) THEN "DnsFailure"
    ELSE IF HasPhrase(text, <<"permission denied">>) \/ HasAuthIndicator(text)
         THEN "AuthDenied"
         ELSE "Unknown"

\* The kind of the exception gitExec raised, as its callers tell it: by its
\* message, and by isAuthenticationError(str(e)) in the retry protocol.
KindOf(e) ==
    IF e.msg = NetworkTimeoutMsg THEN "Timeout"
    ELSE IF e.msg = DnsMsg THEN "DnsFailure"
    ELSE IF isAuthenticationError(e.msg) THEN "AuthDenied"
    ELSE "Unknown"

\* C18 as stated: the kind of a failed command is the first match in the
\* order timeout, DNS failure, permission/authentication denied, unknown,
\* whatever the capitals, and every text that carries an authentication
\* indicator is recognised as an authentication failure by the retry protocol.
C18_AuthIndicatorAlwaysRecognised ==
    gx_exc.type = "Exception" =>
        /\ KindOf(gx_exc) = ExpectedKind(gx_in.errors)
        /\ HasAuthIndicator(gx_in.errors) => isAuthenticationError(gx_exc.msg)

\* C18 amended: the kind of a failed command is the first match in the order
\* timeout, DNS failure, permission/authentication denied, unknown, whatever
\* the capitals; a text that carries an authentication indicator and matches
\* neither the timeout nor the DNS rule is recognised as an authentication
\* failure by the retry protocol, and a text that matches the timeout or the
\* DNS rule never is.
C18_FirstMatchingRule ==
    gx_exc.type = "Exception" =>
        /\ KindOf(gx_exc) = ExpectedKind(gx_in.errors)
        /\ (HasAuthIndicator(gx_in.errors) \/
              HasPhrase(gx_in.errors, <<"permission denied">>))
             /\ ~MatchesTimeout(gx_in.errors) /\ ~MatchesDns(gx_in.errors)
                => isAuthenticationError(gx_exc.msg)
        /\ MatchesTimeout(gx_in.errors) \/ MatchesDns(gx_in.errors)
                => ~isAuthenticationError(gx_exc.msg)

C18_Witness ==
    /\ gx_exc.type = "Exception"
    /\ gx_in.errors = <<U("permission denied"), U("could not resolve host")>>
    /\ gx_exc.msg = DnsMsg

\* The run is through with repository r / has recorded a failure for it.
Ended(r) == Finished(r) \/ seqlog[r] # "none"

Failed(r) ==
    \/ Finished(r) /\ result[r].error # "None"
    \/ seqlog[r] = "failed"

InPullPhase(r) ==
    \/ hist[r].branch > 0 \/ hist[r].safety # "none" \/ hist[r].pull > 0
    \/ \E t \in Threads :
          /\ cur[t] = r
          /\ pc[t] \in {"pr_branch", "no_branch", "ap_check", "ap_announce",
                        "ap_pull", "ap_gate", "ap_flip", "ap_prompt", "ap_ask",
                        "ap_save", "ap_force", "ap_retry", "ap_ok", "ap_warn",
                        "ap_fail", "ap_done"}

\* C20: the pull phase (branch detection, safety check, pull) is entered for
\* a repository only after its refresh succeeded and only when auto-pull was
\* requested; after a failed refresh none of it runs for that repository.
C20_PullPhaseOnlyAfterUpdated ==
    \A r \in Repos :
        /\ InPullPhase(r) => hist[r].lastfetch = "ok" /\ argopts.autopull
        /\ hist[r].lastfetch = "fail" =>
              /\ hist[r].branch = 0 /\ hist[r].pull = 0
              /\ hist[r].safety = "none"

C20_Witness ==
    \E r1, r2 \in Repos :
        /\ Ended(r1) /\ hist[r1].lastfetch = "fail" /\ hist[r1].fetch = 1
        /\ hist[r2].pull > 0 /\ hist[r2].lastpull = "ok" /\ Ended(r2)

\* C21: the retry gates of "update" and "pull" are independent. A failure that
\* reaches the gate test of one kind is let through exactly when the gate of
\* that same kind is still open, whatever the state of the other gate, and a
\* gate is closed only by the retry sequence of its own kind, which leaves
\* the other gate as it was.
C21_GateStep ==
    \A op \in OpKinds :
        /\ \A t \in Threads :
              (pc[t] = ReauthPc[op].gate /\ pc'[t] # pc[t]) =>
                  IF ~retry_attempted[op]
                  THEN pc'[t] = ReauthPc[op].flip
                  ELSE pc'[t] = ReauthPc[op].refused
        /\ retry_attempted'[op] # retry_attempted[op] =>
              /\ \E t \in Threads : /\ pc[t] = ReauthPc[op].flip
                                     /\ pc'[t] = ReauthPc[op].prompt
              /\ \A o \in OpKinds \ {op} :
                    retry_attempted'[o] = retry_attempted[o]

C21_GatesIndependent == [][C21_GateStep]_vars

\* A repository whose refresh consumed the update retry is still granted the
\* pull retry afterwards.
C21_Witness ==
    \E r \in Repos :
        /\ hist[r].granted = {"update", "pull"}
        /\ hist[r].lastfetch = "ok" /\ hist[r].pull > 1
        /\ retry_attempted["update"] /\ retry_attempted["pull"]

\* The safety check has been applied to its input.
Applied == cs_out # NotApplied

\* C22: a repository with no dirty file and no remote is never eligible for
\* auto-pull; the check answers that no remote is configured.
C22_NoRemoteNotEligible ==
    (Applied /\ cs_in.changes = 0 /\ Len(cs_in.remotes) = 0) =>
        /\ ~cs_out.ok
        /\ cs_out.reason = "No remote configured"

C22_Witness ==
    /\ Applied /\ cs_in.changes = 0 /\ cs_in.remotes = <<>>
    /\ cs_out = [ok |-> FALSE, reason |-> "No remote configured"]

\* C23: a remote on which the branch is not behind never makes the repository
\* eligible, whatever its ahead count: when every remote has behind = 0 the
\* repository is not eligible.
C23_NotBehindNotEligible ==
    (Applied /\ \A i \in 1..Len(cs_in.remotes) : cs_in.remotes[i].behind = 0)
        => ~cs_out.ok

C23_Witness ==
    /\ Applied /\ cs_in.changes = 0 /\ Len(cs_in.remotes) = MaxRemotes
    /\ \A i \in 1..Len(cs_in.remotes) :
          cs_in.remotes[i].has /\ cs_in.remotes[i].behind = 0
    /\ cs_in.remotes[1].ahead = 0 /\ cs_in.remotes[2].ahead > 0
    /\ cs_out = [ok |-> FALSE, reason |-> "No remote branches to pull from"]

\* The repository of the example: 2 dirty files, one remote on which the
\* branch is 0 ahead and 3 behind.
RepoA == [changes |-> 2,
          remotes |-> <<[has |-> TRUE, ahead |-> 0, behind |-> 3]>>]

\* C24 as stated: the repository with 2 dirty files whose remote is 0 ahead
\* and 3 behind is eligible and is pulled by fast-forward.
C24_DirtyRepoEligible ==
    (Applied /\ cs_in = RepoA) =>
        cs_out = [ok |-> TRUE, reason |-> "Can fast-forward"]

\* C24 amended: a repository with dirty files is never eligible, even when a
\* remote is 0 ahead and 3 behind; the check answers that there are
\* uncommitted changes.
C24_DirtyRepoNotEligible ==
    (Applied /\ cs_in.changes > 0) =>
        cs_out = [ok |-> FALSE, reason |-> "Has uncommitted changes"]

C24_Witness ==
    /\ Applied /\ cs_in = RepoA
    /\ cs_out = [ok |-> FALSE, reason |-> "Has uncommitted changes"]

\* C25: a repository with no dirty file whose only remote has the branch 1
\* commit ahead is not eligible, and the reason given is that local commits
\* are not pushed, for every behind count of that remote.
C25_AheadMeansNotPushed ==
    (/\ Applied /\ cs_in.changes = 0 /\ Len(cs_in.remotes) = 1
     /\ cs_in.remotes[1].has /\ cs_in.remotes[1].ahead = 1) =>
        cs_out = [ok |-> FALSE,
                  reason |-> "Branch has local commits not pushed"]

\* The text carries the value of a token.
TokenIn(text) == \E i \in 1..Len(text) : text[i] \in Tokens

\* C26: no message returned or printed by the URL conversion contains a token
\* value verbatim, neither the token being injected nor a token that was
\* embedded in the previous URL of the remote.
C26_NoTokenInMessages ==
    /\ \A i \in 1..Len(eh_out.results) : ~TokenIn(eh_out.results[i].message)
    /\ \A k \in 1..Len(eh_out.converted) :
          ~TokenIn(eh_out.converted[k].message)
    /\ \A k \in 1..Len(eh_out.printed) : ~TokenIn(eh_out.printed[k])

\* The remotes the last call of ensureHttpsRemotes went through.
Called == 1..Len(eh_out.results)

\* The set-url command of remote i, when one was issued, succeeded.
SetOk(i) == eh_in.fails # i

\* Remote i was left as it was: no success reported, no set-url issued.
Unchanged(i) ==
    /\ ~eh_out.results[i].success
    /\ eh_out.results[i].seturl = None
    /\ remote_url[i] = eh_in.before[i]

\* Remote i was rewritten to url by one set-url command.
Rewritten(i, url) ==
    /\ eh_out.results[i].success
    /\ eh_out.results[i].seturl = <<url>>
    /\ remote_url[i] = url

\* C27: converting git://h/p with no token yields https://h/p, and converting
\* https://h/p with no token changes nothing: it reports unchanged and issues
\* no set-url command.
C27_GitProtocolOnceThenUnchanged ==
    \A i \in Called : \A h \in Hosts, p \in Paths :
        eh_in.gitlab_token = NoToken =>
            /\ (eh_in.before[i] = GitProtocol(h, p) /\ SetOk(i))
                  => Rewritten(i, HttpsBare(h, p))
            /\ eh_in.before[i] = HttpsBare(h, p) => Unchanged(i)

C27_Witness ==
    /\ Len(remote_url) = 1 /\ eh_in.calls = 2 /\ eh_in.gitlab_token = NoToken
    /\ eh_in.origin[1] = GitProtocol("h", "p")
    /\ eh_in.before[1] = HttpsBare("h", "p")
    /\ Unchanged(1)

\* C28: converting the bare https://h/p with token T yields
\* https://oauth2:T@h/p, and converting https://oauth2:T@h/p with the same
\* token and force_update = False reports unchanged and leaves the URL.
C28_TokenInjectedOnce ==
    \A i \in Called : \A h \in Hosts, p \in Paths :
        eh_in.gitlab_token # NoToken =>
            /\ (eh_in.before[i] = HttpsBare(h, p) /\ SetOk(i))
                  => Rewritten(i, HttpsTokened(eh_in.gitlab_token, h, p))
            /\ (/\ eh_in.before[i] = HttpsTokened(eh_in.gitlab_token, h, p)
                /\ ~eh_in.force_update)
                  => Unchanged(i)

C28_Witness ==
    /\ Len(remote_url) = 1 /\ eh_in.calls = 2
    /\ eh_in.gitlab_token = "T1" /\ ~eh_in.force_update
    /\ eh_in.origin[1] = HttpsBare("h", "p")
    /\ eh_in.before[1] = HttpsTokened("T1", "h", "p")
    /\ Unchanged(1)

\* Number of credential segments (oauth2:...@) in the URL.
RECURSIVE Credentials(_)
Credentials(url) ==
    IF url = <<>> THEN 0
    ELSE (IF Head(url) = "oauth2:" THEN 1 ELSE 0) + Credentials(Tail(url))

\* C29: for an HTTPS URL that carries a token, a conversion with a token and
\* force_update, or with a token other than the one carried, removes the old
\* credential and injects the new token: the URL has exactly one credential
\* segment, it holds the new token, host and path are unchanged, and the old
\* token is no longer in the URL.
C29_TokenRefreshed ==
    \A i \in Called : \A h \in Hosts, p \in Paths, old \in Tokens :
        (/\ eh_in.before[i] = HttpsTokened(old, h, p)
         /\ eh_in.gitlab_token # NoToken
         /\ eh_in.force_update \/ eh_in.gitlab_token # old
         /\ SetOk(i)) =>
            /\ Rewritten(i, HttpsTokened(eh_in.gitlab_token, h, p))
            /\ Credentials(remote_url[i]) = 1
            /\ old # eh_in.gitlab_token => ~Contains(remote_url[i], <<old>>)

C29_Witness ==
    /\ eh_in.calls = 1 /\ eh_in.gitlab_token = "T2"
    /\ Len(remote_url) = 2
    /\ eh_in.before[1] = HttpsTokened("T1", "h", "p") /\ SetOk(1)
    /\ eh_in.before[2] = HttpsTokened("T2", "g", "p") /\ SetOk(2)
    /\ eh_in.force_update
    /\ remote_url[1] = HttpsTokened("T2", "h", "p")
    /\ remote_url[2] = HttpsTokened("T2", "g", "p")

\* C30: every git://, git@host:path and ssh:// URL is rewritten to an HTTPS
\* URL with the same host and path, and when a token is present the result
\* carries exactly one credential segment, directly before the host.
C30_RewrittenToHttps ==
    \A i \in Called : \A h \in Hosts, p \in Paths :
        (/\ eh_in.before[i] \in {GitProtocol(h, p), SshShorthand(h, p)}
                                 \cup {SshUrl(u, h, p) : u \in SshUsers}
         /\ SetOk(i)) =>
            Rewritten(i, IF eh_in.gitlab_token = NoToken
                         THEN HttpsBare(h, p)
                         ELSE HttpsTokened(eh_in.gitlab_token, h, p))

\* Remote i is in the list ensureHttpsRemotes returned.
Returned(i) ==
    \E k \in 1..Len(eh_out.converted) : eh_out.converted[k].remote = i

\* A set-url command was issued for remote i.
SetUrlIssued(i) == eh_out.results[i].seturl # None

\* C31 as stated: a remote is in the returned list if and only if a set-url
\* command was issued for it.
C31_ReturnedIffSetUrlIssued ==
    \A i \in Called : Returned(i) <=> SetUrlIssued(i)

\* C31 amended: the conversion is applied to every remote in listed order and
\* the returned list holds, in that order and once each, exactly the remotes
\* for which a set-url command was issued and succeeded; those are the
\* remotes whose URL was rewritten, every other URL is as it was.
C31_ReturnedIffRewritten ==
    /\ Len(eh_out.results) = Len(eh_in.before)
    /\ eh_out.any <=> Len(eh_out.converted) > 0
    /\ \A i \in Called :
          /\ Returned(i) <=> (SetUrlIssued(i) /\ SetOk(i))
          /\ Returned(i) => Rewritten(i, eh_out.results[i].seturl[1])
          /\ ~Returned(i) => remote_url[i] = eh_in.before[i]
    /\ \A k \in 1..Len(eh_out.converted) :
          /\ eh_out.converted[k].message
                 = eh_out.results[eh_out.converted[k].remote].message
          /\ \A j \in 1..(k - 1) :
                eh_out.converted[j].remote < eh_out.converted[k].remote

C31_Witness ==
    /\ Len(remote_url) = 2 /\ eh_in.calls = 1 /\ eh_in.fails = 1
    /\ SetUrlIssued(1) /\ ~Returned(1) /\ remote_url[1] = eh_in.before[1]
    /\ SetUrlIssued(2) /\ Returned(2) /\ remote_url[2] # eh_in.before[2]

\* The pipeline of repository r has begun.
PipelineStarted(r) ==
    \/ \E t \in Threads : cur[t] = r
    \/ Ended(r)
    \/ hist[r].ensure > 0 \/ hist[r].fetch > 0

\* C32: with concurrency disabled the repositories are processed one at a
\* time, by the main thread, in the order of the sorted list: the pipeline of
\* a repository begins only after the pipeline of every earlier repository
\* of the list has ended, in success or in failure.
C32_SequentialInOrder ==
    ~ParallelRun =>
        /\ \A w \in Workers : pc[w] = "idle" /\ cur[w] = 0
        /\ \A r \in repo : PipelineStarted(r) =>
              \A q \in 1..(r - 1) : seqlog[q] # "none"

C32_Witness ==
    /\ ~ParallelRun /\ nrepo = 2 /\ mainpc = "done"
    /\ seqlog[1] = "failed" /\ seqlog[2] = "updated"
    /\ hist[1].fetch > 0 /\ hist[2].fetch > 0

\* The directory a search directory names, written with or without a
\* separator at its end.
RootDir(text) ==
    CHOOSE d \in Dirs : text \in {PathText(d), PathText(d) \o <<Sep>>}

\* Directory e lies at or below directory r.
Below(r, e) == Len(r) <= Len(e) /\ SubSeq(e, 1, Len(r)) = r

\* The directories the search is specified to return.
ExpectedRepos ==
    {PathText(e) : e \in
        {d \in sr_in.git :
            \E k \in 1..Len(sr_in.searchDir) :
                /\ Below(RootDir(sr_in.searchDir[k]), d)
                /\ \/ sr_in.depth = None
                   \/ Len(d) - Len(RootDir(sr_in.searchDir[k]))
                         <= sr_in.depth[1]}}

\* The list is in increasing order, so it has no duplicates.
SortedNoDuplicates(list) ==
    \A i, j \in 1..Len(list) : i < j => Less(list[i], list[j])

\* C33: searchRepositories returns, sorted and without duplicates, exactly
\* the directories at or below a search directory that contain .git and lie
\* at most depth levels below it (at any level when depth is unset), the
\* boundary level and repositories nested in repositories included.
C33_SearchReturnsExactly ==
    sr_out.done =>
        /\ {sr_out.repo[i] : i \in 1..Len(sr_out.repo)} = ExpectedRepos
        /\ SortedNoDuplicates(sr_out.repo)

\* The list of remotes without its i-th remote.
Without(remotes, i) ==
    SubSeq(remotes, 1, i - 1) \o SubSeq(remotes, i + 1, Len(remotes))

\* A log command was run for remote i.
LogRan(i) ==
    \E k \in 1..Len(cs_ran) :
        cs_ran[k].remote = i /\ cs_ran[k].cmd # "branch -r"

\* C34: for a remote on which hasRemoteBranch is false the ahead list and the
\* behind list are empty and no log command is run; the remote contributes
\* nothing to the eligibility: the answer is the one the remaining remotes
\* give.
C34_NoBranchNoLogNoCount ==
    Applied =>
        \A i \in 1..Len(cs_in.remotes) :
            ~hasRemoteBranch(cs_in.remotes[i]) =>
                /\ getLocalToPush(cs_in.remotes[i]) = 0
                /\ getRemoteToPull(cs_in.remotes[i]) = 0
                /\ SideRuns(cs_in.remotes[i], i, "log") =
                      hasRemoteBranchRuns(cs_in.remotes[i], i)
                /\ ~LogRan(i)
                /\ cs_out.ok =
                      canSafelyPull(cs_in.changes,
                                    Without(cs_in.remotes, i)).ok

C34_Witness ==
    /\ Applied /\ cs_in.changes = 0 /\ Len(cs_in.remotes) = 2
    /\ ~cs_in.remotes[1].has /\ cs_in.remotes[1].behind > 0
    /\ cs_in.remotes[1].ahead > 0
    /\ cs_in.remotes[2].has /\ cs_in.remotes[2].behind > 0
    /\ cs_out.ok /\ ~LogRan(1) /\ LogRan(2)

\* Thread t moves to position p of the re-authentication sequence.
Reaches(t, p) == pc'[t] = p /\ pc[t] # p

\* C35: in a granted re-authentication the steps follow in the order prompt,
\* install the replacement token, force-rewrite the remote URLs of the
\* failing repository, retry: the retry begins only from the rewrite, and
\* when it begins the URL of the repository carries the installed token, not
\* the rejected one.
C35_ReauthStep ==
    \A op \in OpKinds : \A t \in Threads :
        /\ Reaches(t, ReauthPc[op].ask) => pc[t] = ReauthPc[op].prompt
        /\ Reaches(t, ReauthPc[op].save) =>
              /\ pc[t] = ReauthPc[op].ask
              /\ GITLAB_TOKEN' = new_token'[t] /\ GITLAB_TOKEN' # NoToken
        /\ Reaches(t, ReauthPc[op].force) => pc[t] = ReauthPc[op].save
        /\ Reaches(t, ReauthPc[op].retry) =>
              /\ pc[t] = ReauthPc[op].force
              /\ urlTok'[cur[t]] = GITLAB_TOKEN'

C35_RetryAfterRewrite == [][C35_ReauthStep]_vars

\* C36: every outcome of processRepository, while it is built and when it is
\* returned, has pulled only with updated, success only with updated, and
\* never both success and an error.
C36_OutcomeWellFormed ==
    \A r \in Repos :
        /\ result[r].pulled => result[r].updated
        /\ result[r].success => result[r].updated
        /\ result[r].error # "None" => ~result[r].success

C36_Witness ==
    \E r1, r2 \in Repos :
        /\ Finished(r1) /\ result[r1].pulled /\ result[r1].success
        /\ Finished(r2) /\ result[r2].updated /\ ~result[r2].success
        /\ result[r2].error # "None"

\* No step rewrites a remote URL, changes the token, touches a retry gate or
\* opens a prompt.
AuthStateKept ==
    /\ urlTok' = urlTok /\ GITLAB_TOKEN' = GITLAB_TOKEN
    /\ retry_attempted' = retry_attempted
    /\ nprompts' = nprompts /\ prompting' = prompting

\* Nothing of the HTTPS machinery has run, and no command was retried.
NeverReauthenticated ==
    /\ GITLAB_TOKEN = tokenAtStart
    /\ \A op \in OpKinds : ~retry_attempted[op] /\ ngrants[op] = 0
    /\ \A k \in PromptKinds : nprompts[k] = 0
    /\ \A r \in Repos :
          /\ hist[r].ensure = 0 /\ hist[r].force = 0
          /\ hist[r].granted = {} /\ hist[r].prompted = {}
          /\ hist[r].fetch <= 1 /\ hist[r].pull <= 1

\* C37: when HTTPS enforcement is off, no run rewrites a remote URL, issues a
\* token prompt or flips a retry gate, whatever fails: a command that fails
\* with an authentication error is not retried, and the token, the gates and
\* the remote URLs stay as they were.
C37_HttpsOffTouchesNothing ==
    /\ [](~argopts.use_https => NeverReauthenticated)
    /\ [][~argopts.use_https => AuthStateKept]_vars

C37_Witness ==
    /\ ~argopts.use_https /\ mainpc = "done" /\ nrepo = 2
    /\ hist[1].lastfetch = "fail" /\ Failed(1) /\ hist[1].fetch = 1
    /\ hist[2].lastfetch = "ok" /\ hist[2].lastpull = "fail"
    /\ hist[2].pull = 1


\* The operator answered the re-authentication prompt of kind op for
\* repository r with an empty token.
Declined(r, op) ==
    /\ op \in hist[r].prompted /\ op \notin hist[r].supplied
    /\ \A t \in Threads : cur[t] = r => pc[t] # ReauthPc[op].ask

\* How often the command of kind op ran for repository r.
RunsOf(r, op) == IF op = "update" THEN hist[r].fetch ELSE hist[r].pull

\* The step at which an empty answer is given leaves the token and the URLs
\* as they are, and no step reopens a gate.
C38_DeclineStep ==
    /\ \A op \in OpKinds : \A t \in Threads :
          pc[t] = ReauthPc[op].ask /\ pc'[t] = ReauthPc[op].refused =>
              /\ GITLAB_TOKEN' = GITLAB_TOKEN /\ urlTok' = urlTok
              /\ retry_attempted'[op]
    /\ \A op \in OpKinds : retry_attempted[op] => retry_attempted'[op]

\* After an empty answer the command was not retried, no rewrite was forced
\* for it and the gate of its kind is consumed.
DeclinedNoRetry ==
    \A r \in Repos : \A op \in OpKinds :
        Declined(r, op) =>
            /\ RunsOf(r, op) = 1
            /\ hist[r].force <= Cardinality(hist[r].supplied)
            /\ retry_attempted[op]

\* C38: when the operator answers the re-authentication prompt with an empty
\* token, the command is not retried and no URL is rewritten, the token held
\* is unchanged, the gate of that kind stays consumed, and the original
\* authentication failure is the result of the repository.
C38_EmptyAnswerKeepsFailure ==
    /\ [](/\ DeclinedNoRetry
          /\ \A r \in Repos : \A op \in OpKinds :
                Declined(r, op) /\ Ended(r) => Failed(r))
    /\ [][C38_DeclineStep]_vars


\* Thread t is at a statement that acquires console_lock.
Acquiring(t) ==
    \/ pc[t] \in {"ur_print", "ap_announce", "ap_ok", "ap_warn", "ap_fail"}
    \/ \E op \in OpKinds : pc[t] \in {ReauthPc[op].prompt, ReauthPc[op].save}
    \/ t = Main /\ mainpc \in {"init_prompt", "init_save", "collect"}

\* The lock is held only by a thread that waits for the operator's answer,
\* and the holder is not at a statement that acquires the lock.
HolderAtPrompt ==
    /\ console_lock \in {Free} \cup Threads
    /\ \A t \in Threads : console_lock = t => prompting[t] /\ ~Acquiring(t)

\* The lock is taken only when it is free, and the answer to a prompt
\* releases it whatever the answer is.
C39_LockStep ==
    /\ console_lock' # console_lock => console_lock = Free \/ console_lock' = Free
    /\ \A t \in Threads :
          console_lock = t /\ prompting[t] /\ ~prompting'[t]
              => console_lock' = Free

\* C39: the shared lock never causes a deadlock: no thread tries to acquire
\* the lock while it holds it, every acquisition is followed by a release,
\* and in every state of a parallel run that has not produced all outcomes
\* some step can be taken, the operator answering any pending prompt.
C39_NoDeadlockOnLock ==
    /\ [](/\ HolderAtPrompt
          /\ ParallelRun /\ mainpc # "done" => ENABLED <<Next>>_vars)
    /\ [][C39_LockStep]_vars

\* A worker is at a statement that acquires the lock while another worker
\* holds it at a prompt.
C39_Witness ==
    /\ ParallelRun
    /\ \E t, u \in Workers :
          /\ console_lock = t /\ prompting[t]
          /\ u # t /\ Acquiring(u)

====
